---- MODULE Spec2Model ----
(***************************************************************************)
(* The ProvisionedConcurrency serverless plugin (src/src/index.ts): its    *)
(* four hook entry points, the Lambda provider they talk to, and the pure  *)
(* helpers they are built from.                                            *)
(*                                                                         *)
(* JavaScript values are tagged records (Undefined, Null, Num, Str), so    *)
(* that truthiness tests and "=== null" tests behave as in the source.     *)
(* A string is a sequence of pieces (TLA+ strings); concatenation is \o,   *)
(* a version "10" is <<"1", "0">>, and split / includes / parseInt are     *)
(* computed on the pieces.                                                 *)
(***************************************************************************)
EXTENDS Integers, Sequences, FiniteSets, TLC

VARIABLES
  functions,   \* serverless.service.functions, in declaration order
  custom,      \* serverless.service.custom
  options,     \* options.function of the command line
  cpuCount,    \* os.cpus().length
  lambda,      \* the provider: versions and provisioned concurrency configs
  host,        \* the serverless command being run and its lifecycle stage
  call,        \* position of the entry point that is executing
  tasks,       \* the _processFunction tasks of the running apply entry point,
               \* each with the answer of its last readiness poll
  log,         \* outcome of every entry point that has returned or thrown
  requests,    \* mutating requests issued by the entry point that is executing
  state,       \* the progress state shared by an apply entry point and its tasks,
               \* and the number of indicators the host displays
  arg,         \* argument of a helper applied on its own
  ret          \* what that helper returned

vars == <<functions, custom, options, cpuCount, lambda, host, call, tasks,
          log, requests, state, arg, ret>>

(***************************** bounds **************************************)
\* numbered versions a function may have before the command starts
MaxVersions == 2
\* largest provisioned / reserved value of a manifest in a command run
MaxUnits == 2
\* largest os.cpus().length
MaxCpus == 2
\* largest reservedConcurrency / provisioned drawn when the validator is applied on its own
MaxReserved == 100
\* longest listVersionsByFunction answer drawn when the resolver is applied on its own
MaxListed == 4
\* most versions of a function that hold a config when the cleanup of many is run
MaxRecords == 51

(*************************** JavaScript values *****************************)
Undefined == [t |-> "undefined"]
Null == [t |-> "null"]
Num(n) == [t |-> "num", v |-> n]
Str(s) == [t |-> "str", v |-> s]
Obj(o) == [t |-> "obj", v |-> o]

IsNullish(x) == x.t \in {"undefined", "null"}

\* !x
Falsy(x) ==
  \/ IsNullish(x)
  \/ x.t = "num" /\ x.v = 0
  \/ x.t = "str" /\ x.v = <<>>

\* x || y
OrElse(x, y) == IF Falsy(x) THEN y ELSE x

\* o?.k of an object whose fields are a function from names to values
Field(o, k) ==
  IF IsNullish(o) THEN Undefined
  ELSE IF k \in DOMAIN o.v THEN o.v[k] ELSE Undefined

\* x > n for a number n: ToNumber(null) is 0, ToNumber(undefined) is NaN
GreaterThan(x, n) ==
  CASE x.t = "num" -> x.v > n
    [] x.t = "null" -> 0 > n
    [] OTHER -> FALSE

(******************************* strings ***********************************)
Digits == <<"0", "1", "2", "3", "4", "5", "6", "7", "8", "9">>

DigitValue(c) == (CHOOSE i \in DOMAIN Digits : Digits[i] = c) - 1

IsDigit(c) == \E i \in DOMAIN Digits : Digits[i] = c

\* String.prototype.includes for a one-piece needle
Includes(s, piece) == \E i \in DOMAIN s : s[i] = piece

\* parseInt of a string of decimal digits
RECURSIVE parseInt(_)
parseInt(s) ==
  IF s = <<>> THEN 0
  ELSE 10 * parseInt(SubSeq(s, 1, Len(s) - 1)) + DigitValue(s[Len(s)])

\* the decimal string of a positive number: what the provider names a version
RECURSIVE DecimalString(_)
DecimalString(n) ==
  IF n < 10 THEN <<Digits[n + 1]>>
  ELSE DecimalString(n \div 10) \o <<Digits[(n % 10) + 1]>>

\* String.prototype.split(sep) for a one-piece separator
RECURSIVE Split(_, _)
Split(s, sep) ==
  IF ~ Includes(s, sep) THEN <<s>>
  ELSE LET i == CHOOSE j \in DOMAIN s : s[j] = sep /\ \A k \in 1..(j - 1) : s[k] # sep
       IN <<SubSeq(s, 1, i - 1)>> \o Split(SubSeq(s, i + 1, Len(s)), sep)

LATEST == <<"$LATEST">>
latest == <<"latest">>
warmUpPlugin == "warmUpPlugin"

(************************ configuration helpers ****************************)
ServiceName == "svc"
StageName == "dev"

\* _getFunctionName: `${service}-${stage}-${functionName}`
_getFunctionName(functionName) == <<ServiceName, "-", StageName, "-">> \o functionName

\* _normalizeConfig
_normalizeConfig(functionConfig) ==
  [reserved |-> OrElse(Field(functionConfig, "reservedConcurrency"), Null),
   provisioned |-> OrElse(Field(Field(functionConfig, "concurrency"), "provisioned"), Null),
   version |-> OrElse(Field(Field(functionConfig, "concurrency"), "version"), Null)]

\* the list of the functions that declare a capacity only
ConfiguredWithCapacity ==
  LET RECURSIVE From(_)
      From(i) ==
        IF i > Len(functions) THEN <<>>
        ELSE (IF Falsy(Field(Field(functions[i].config, "concurrency"), "provisioned"))
              THEN <<>>
              ELSE <<[name |-> functions[i].name,
                      config |-> _normalizeConfig(functions[i].config)]>>) \o From(i + 1)
  IN From(1)

\* _getConfiguredFunctions: Object.entries(functions).map(...)
_getConfiguredFunctions ==
  [i \in DOMAIN functions |->
     [name |-> functions[i].name, config |-> _normalizeConfig(functions[i].config)]]

\* this.serverless.service.functions[name]
FunctionConfigOf(name) ==
  functions[CHOOSE i \in DOMAIN functions : functions[i].name = name].config

\* functions.find((func) => func.name === functionName)
FindFunction(fs, name) ==
  IF \E i \in DOMAIN fs : fs[i].name = name
  THEN fs[CHOOSE i \in DOMAIN fs : fs[i].name = name /\ \A j \in 1..(i - 1) : fs[j].name # name]
  ELSE Undefined

\* no value yet
Pending == [t |-> "pending"]

\* a function entry of serverless.yml
FunctionConfig(provisioned, version, reservedConcurrency) ==
  Obj([concurrency |-> Obj([provisioned |-> provisioned, version |-> version]),
       reservedConcurrency |-> reservedConcurrency])

\* the custom section of serverless.yml, by its maxPercent
CustomWith(maxPercent) == Obj([provisionedConcurrency |-> Obj([maxPercent |-> maxPercent])])

hello == <<"hello">>

(**************************** the validator ********************************)
(* A percentage is held as the binary64 number nearest to hundredths/100,  *)
(* which is what maxPercent / 100 and the literal 0.8 evaluate to.         *)
Hundredths(p) == [hundredths |-> p]

RECURSIVE Pow2(_)
Pow2(n) == IF n = 0 THEN 1 ELSE 2 * Pow2(n - 1)

\* 2^e modulo m
RECURSIVE Pow2Mod(_, _)
Pow2Mod(e, m) == IF e = 0 THEN 1 % m ELSE (2 * Pow2Mod(e - 1, m)) % m

\* floor(log2(n)) for n >= 1
RECURSIVE FloorLog2(_)
FloorLog2(n) == IF n < 2 THEN 0 ELSE 1 + FloorLog2(n \div 2)

\* least s >= 1 with p * 2^s >= 100: p/100 lies in [2^-s, 2^(1-s))
RECURSIVE BinaryScale(_, _)
BinaryScale(p, s) == IF p * Pow2(s) >= 100 THEN s ELSE BinaryScale(p, s + 1)

(* Math.floor(r * q) in binary64 round-to-nearest-even arithmetic, q the   *)
(* number nearest to p/100 (0 <= p <= 100, 0 <= r < 2^20).                 *)
(* q = m / 2^e with 2^52 <= m < 2^53 and e = 52 + s; 100 * m differs from  *)
(* p * 2^e by the residue t = p * 2^e mod 100: q is below p/100 by         *)
(* t / (100 * 2^e) when t < 50, and at or above p/100 otherwise. The exact *)
(* product r * q is then within 2^-30 of r*p/100, so the rounded product   *)
(* has floor r*p div 100 unless r*p/100 is a whole number I and the        *)
(* product rounds to a number below I: that is, unless q is below p/100    *)
(* and r * t / (100 * 2^e) exceeds half the gap between I and the binary64 *)
(* number before it (2^(k-52), or 2^(k-53) when I = 2^k; k = floor(log2 I))*)
FloorTimes(r, q) ==
  LET p == q.hundredths
      I == (r * p) \div 100
  IN IF p = 0 \/ r = 0 THEN 0
     ELSE IF p = 100 THEN r
     ELSE LET s == BinaryScale(p, 1)
              t == (p * Pow2Mod(52 + s, 100)) % 100
              k == FloorLog2(I)
              halfGap == IF I = Pow2(k) THEN 25 * Pow2(k + s) ELSE 50 * Pow2(k + s)
          IN IF (r * p) % 100 # 0 \/ t = 0 \/ t >= 50 THEN I
             ELSE IF r * t <= halfGap THEN I ELSE I - 1

\* the margin with the maxPercent setting never read
PercentIgnoringSetting == Hundredths(80)

\* _getProvisionedConcurrencyPercent
_getProvisionedConcurrencyPercent ==
  LET customConfig ==
        OrElse(Field(custom, "provisionedConcurrency"), Obj([maxPercent |-> Undefined]))
      maxPercent == Field(customConfig, "maxPercent")
  IN IF maxPercent # Undefined
     THEN Hundredths(IF maxPercent.t = "num" THEN maxPercent.v ELSE 0)
     ELSE Hundredths(80)

\* the validator that lets every capacity through
ValidatesNothing(func) == Null

Message(m) == [t |-> "msg", v |-> m]

\* _validateProvisionedConcurrency: the error message, or null
_validateProvisionedConcurrency(func) ==
  LET functionName == _getFunctionName(func.name)
      originalFunctionConfig == FunctionConfigOf(func.name)
      maxPercent == _getProvisionedConcurrencyPercent
      reservedConcurrency ==
        IF ~ IsNullish(func.config.reserved)
        THEN func.config.reserved
        ELSE Field(originalFunctionConfig, "reservedConcurrency")
  IN IF ~ IsNullish(reservedConcurrency)
     THEN LET maxProvisionedConcurrency == FloorTimes(reservedConcurrency.v, maxPercent)
          IN IF GreaterThan(func.config.provisioned, maxProvisionedConcurrency)
             THEN Message([functionName |-> functionName,
                           provisioned |-> func.config.provisioned,
                           percentDisplay |-> maxPercent.hundredths,
                           reserved |-> reservedConcurrency.v,
                           maxRecommended |-> maxProvisionedConcurrency,
                           maxAvailable |-> reservedConcurrency.v - 1])
             ELSE Null
     ELSE Null

\* the loop that stops at the first function that fails
RECURSIVE ValidateUntilFirst(_, _, _)
ValidateUntilFirst(fs, i, errors) ==
  IF i > Len(fs) THEN errors
  ELSE LET error == _validateProvisionedConcurrency(fs[i])
       IN IF Falsy(error) THEN ValidateUntilFirst(fs, i + 1, errors) ELSE Append(errors, error)

\* the loop of _validateAllFunctions over the functions from index i on
RECURSIVE ValidateFrom(_, _, _)
ValidateFrom(fs, i, errors) ==
  IF i > Len(fs) THEN errors
  ELSE LET error == _validateProvisionedConcurrency(fs[i])
       IN ValidateFrom(fs, i + 1, IF Falsy(error) THEN errors ELSE Append(errors, error))

\* _validateAllFunctions
_validateAllFunctions == ValidateFrom(_getConfiguredFunctions, 1, <<>>)

(************************* the version resolver ****************************)
Return(v) == [ok |-> TRUE, value |-> v]
Throw(e) == [ok |-> FALSE, error |-> e]

\* the filter keeping every version
FilterNothing(vs) == vs

\* versions.filter((v) => v.Version !== '$LATEST')
RECURSIVE FilterNotLatest(_)
FilterNotLatest(vs) ==
  IF vs = <<>> THEN <<>>
  ELSE (IF Head(vs).Version # LATEST THEN <<Head(vs)>> ELSE <<>>) \o FilterNotLatest(Tail(vs))

\* x.localeCompare(y) for strings of digits: -1, 0 or 1
RECURSIVE LocaleCompare(_, _)
LocaleCompare(x, y) ==
  IF x = <<>> /\ y = <<>> THEN 0
  ELSE IF x = <<>> THEN -1
  ELSE IF y = <<>> THEN 1
  ELSE IF DigitValue(Head(x)) < DigitValue(Head(y)) THEN -1
  ELSE IF DigitValue(Head(x)) > DigitValue(Head(y)) THEN 1
  ELSE LocaleCompare(Tail(x), Tail(y))

\* the comparator with the versions compared as strings
CompareVersionsAsStrings(a, b) == LocaleCompare(b.Version, a.Version)

\* the comparator of the sort: parseInt(b.Version) - parseInt(a.Version)
CompareVersions(a, b) == parseInt(b.Version) - parseInt(a.Version)

\* Array.prototype.sort (stable) with CompareVersions: insertion of v into a sorted list
RECURSIVE InsertSorted(_, _)
InsertSorted(sorted, v) ==
  IF sorted = <<>> THEN <<v>>
  ELSE IF CompareVersions(v, Head(sorted)) < 0
       THEN <<v>> \o sorted
       ELSE <<Head(sorted)>> \o InsertSorted(Tail(sorted), v)

RECURSIVE SortVersions(_)
SortVersions(vs) ==
  IF vs = <<>> THEN <<>>
  ELSE InsertSorted(SortVersions(SubSeq(vs, 1, Len(vs) - 1)), vs[Len(vs)])

\* _getLatestVersion, from the answer of listVersionsByFunction on
LatestOf(response) ==
  IF IsNullish(response.Versions) \/ response.Versions.v = <<>>
  THEN Throw("NoVersionFoundError")
  ELSE LET versions == SortVersions(FilterNotLatest(response.Versions.v))
       IN IF versions = <<>>
          THEN Throw("NoVersionFoundError")
          ELSE Return(versions[1].Version)

\* the version taken from the last part of the ARN, however many parts it has
LastPartOfArn(arn) ==
  IF Falsy(arn) THEN Null
  ELSE LET parts == Split(arn.v, ":")
       IN Str(parts[Len(parts)])

\* _extractVersionFromArn
_extractVersionFromArn(arn) ==
  IF Falsy(arn) THEN Null
  ELSE LET parts == Split(arn.v, ":")
       IN IF Len(parts) < 8 THEN Null ELSE Str(parts[8])

(***************************** the provider ********************************)
(* lambda.versions maps each deployed function to the versions the provider *)
(* lists for it ('$LATEST', then the numbered ones as they were published); *)
(* lambda.configs is the set of provisioned concurrency configs, each with  *)
(* the FunctionArn it is listed under;                                      *)
(* lambda.faulty tells whether the provider may fail to serve a request it  *)
(* could have served.                                                       *)
Region == "us-east-1"
Account == "123456789012"

\* the FunctionArn of a provisioned concurrency config
FunctionArn(functionName, qualifier) ==
  <<"arn", ":", "aws", ":", "lambda", ":", Region, ":", Account, ":", "function", ":">>
    \o functionName \o <<":">> \o qualifier

\* the answer of a request the provider could not serve
Failure == [ok |-> FALSE, message |-> "ServiceException"]

\* the answers of a provider that fails to serve a request it could have served
Faults == IF lambda.faulty THEN {Failure} ELSE {}

\* the versions <<'$LATEST', '1', ..., 'n'>>
VersionsUpTo(n) == [i \in 1..(n + 1) |-> IF i = 1 THEN LATEST ELSE DecimalString(i - 1)]

ConfigsOf(functionName) == {c \in lambda.configs : c.FunctionName = functionName}

\* the configs of a set, as the provider lists them: by ascending version
RECURSIVE ListOf(_)
ListOf(cs) ==
  IF cs = {} THEN <<>>
  ELSE LET first == CHOOSE c \in cs :
                      \A d \in cs : parseInt(c.Qualifier) <= parseInt(d.Qualifier)
       IN <<[FunctionArn |-> first.FunctionArn,
             RequestedProvisionedConcurrentExecutions |-> first.requested,
             Status |-> first.status]>> \o ListOf(cs \ {first})

\* MaxItems of the two list requests
MaxItems == 50

\* the answer to a list request made once, without the marker of a next page: the
\* first MaxItems items
Page(items) == SubSeq(items, 1, IF Len(items) < MaxItems THEN Len(items) ELSE MaxItems)

\* answers to listVersionsByFunction { FunctionName, MaxItems: 50 }
ListVersionsAnswers(functionName) ==
  Faults \cup
    (IF functionName \in DOMAIN lambda.versions
     THEN {[ok |-> TRUE,
            Versions |-> Obj(Page([i \in DOMAIN lambda.versions[functionName] |->
                                     [Version |-> lambda.versions[functionName][i]]]))]}
     ELSE {Failure})

\* answers to listProvisionedConcurrencyConfigs { FunctionName, MaxItems: 50 }
ListConfigsAnswers(functionName) ==
  Faults \cup
    (IF functionName \in DOMAIN lambda.versions
     THEN {[ok |-> TRUE,
            ProvisionedConcurrencyConfigs |-> Obj(Page(ListOf(ConfigsOf(functionName))))]}
     ELSE {Failure})

\* whether the provider has this numbered version of the function
HasVersion(functionName, qualifier) ==
  /\ functionName \in DOMAIN lambda.versions
  /\ qualifier # LATEST
  /\ \E i \in DOMAIN lambda.versions[functionName] :
       lambda.versions[functionName][i] = qualifier

HasConfig(functionName, qualifier) ==
  \E c \in lambda.configs : c.FunctionName = functionName /\ c.Qualifier = qualifier

\* the provider after deleteProvisionedConcurrencyConfig succeeded
AfterDelete(functionName, qualifier) ==
  [lambda EXCEPT !.configs =
     {c \in @ : ~ (c.FunctionName = functionName /\ c.Qualifier = qualifier)}]

\* the provider after putProvisionedConcurrencyConfig succeeded
AfterPut(functionName, qualifier, count) ==
  [lambda EXCEPT !.configs =
     {c \in @ : ~ (c.FunctionName = functionName /\ c.Qualifier = qualifier)}
       \cup {[FunctionName |-> functionName, Qualifier |-> qualifier,
              FunctionArn |-> Str(FunctionArn(functionName, qualifier)),
              requested |-> count, status |-> "IN_PROGRESS"]}]

\* answers to getProvisionedConcurrencyConfig { FunctionName, Qualifier }
GetConfigAnswers(functionName, qualifier) ==
  Faults \cup
    (IF HasConfig(functionName, qualifier)
     THEN {[ok |-> TRUE, Status |-> c.status] :
             c \in {d \in lambda.configs :
                      d.FunctionName = functionName /\ d.Qualifier = qualifier}}
     ELSE {Failure})

(******************************* the host **********************************)
(* The hooks table of the constructor: the lifecycle events of a command,   *)
(* in the order serverless runs them, and the entry point bound to each.    *)
(* "redeploy" is `serverless deploy` run a second time once it is over.     *)
\* the hooks bound the other way round: capacity applied before the deploy,
\* validation after it
LifecycleApplyingFirst ==
  [deploy |-> <<"after:aws:deploy:deploy:updateStack", "deploy:deploy",
                "before:deploy:deploy">>,
   deployFunction |-> <<"after:deploy:function:deploy", "deploy:function:deploy",
                        "before:deploy:function:deploy">>,
   validate |-> <<"concurrency:validate:validate">>,
   redeploy |-> <<"after:aws:deploy:deploy:updateStack", "deploy:deploy",
                  "before:deploy:deploy", "after:aws:deploy:deploy:updateStack",
                  "deploy:deploy", "before:deploy:deploy">>]

Lifecycle ==
  [deploy |-> <<"before:deploy:deploy", "deploy:deploy",
                "after:aws:deploy:deploy:updateStack">>,
   deployFunction |-> <<"before:deploy:function:deploy", "deploy:function:deploy",
                        "after:deploy:function:deploy">>,
   validate |-> <<"concurrency:validate:validate">>,
   redeploy |-> <<"before:deploy:deploy", "deploy:deploy",
                  "after:aws:deploy:deploy:updateStack", "before:deploy:deploy",
                  "deploy:deploy", "after:aws:deploy:deploy:updateStack">>]

Commands == {"deploy", "deployFunction", "validate"}

\* the lifecycle event the host has reached
Stage ==
  IF host.aborted THEN "aborted"
  ELSE IF host.command \notin DOMAIN Lifecycle \/ host.step > Len(Lifecycle[host.command]) THEN "done"
  ELSE Lifecycle[host.command][host.step]

Idle == [ep |-> "idle", pc |-> "none", todo |-> <<>>, version |-> Null,
         pending |-> <<>>, before |-> {}]

NoError == [name |-> "none", messages |-> <<>>]
MaximumConcurrencyError(messages) == [name |-> "MaximumConcurrencyError", messages |-> messages]
NoVersionFoundError == [name |-> "NoVersionFoundError", messages |-> <<>>]
ProviderError == [name |-> "ServiceException", messages |-> <<>>]
TimeoutError == [name |-> "did not become ready within timeout", messages |-> <<>>]

\* what the apply entry points log once their tasks have all succeeded ("none"
\* on the other paths, where the entry point itself logs nothing as it ends)
Completed(pc) ==
  IF pc = "Promise.all" THEN "Provisioned concurrency configuration completed"
  ELSE IF pc = "_processFunction" THEN "Provisioned concurrency set for function"
  ELSE "none"

\* what the catch block of the apply entry points logs before it throws again
Caught(pc) ==
  IF pc = "Promise.all" THEN "Error setting provisioned concurrency: "
  ELSE IF pc = "_processFunction" THEN "Error setting provisioned concurrency for function"
  ELSE "none"

\* the entry point returns, having logged `said` last: the host goes on to the
\* next lifecycle event
ReturnsSaying(ep, before, said) ==
  /\ log' = Append(log, [ep |-> ep, threw |-> FALSE, error |-> NoError,
                         said |-> said, before |-> before])
  /\ host' = [host EXCEPT !.step = @ + 1]
  /\ call' = Idle

Returns(ep, before) == ReturnsSaying(ep, before, Completed(call.pc))

\* the entry point throws: the host stops the command
Throws(ep, before, error) ==
  /\ log' = Append(log, [ep |-> ep, threw |-> TRUE, error |-> error,
                         said |-> Caught(call.pc), before |-> before])
  /\ host' = [host EXCEPT !.aborted = TRUE]
  /\ call' = Idle

\* the delete or put request just issued and its outcome, as the history keeps them
Issued(ep, op, functionName, qualifier, count, answer) ==
  Append(requests, [ep |-> ep, op |-> op, FunctionName |-> functionName,
                    Qualifier |-> qualifier, count |-> count, ok |-> answer.ok])

(********************* cleanup of previous versions ************************)
\* every reference is looked up
AlwaysResolved(version) == TRUE

\* !version || version === 'latest'
NeedsResolution(version) == Falsy(version) \/ version = Str(latest)

\* the functions of the loop left once those _deleteConcurrency skips are passed
RECURSIVE SkipWarmUp(_)
SkipWarmUp(todo) ==
  IF todo = <<>> THEN <<>>
  ELSE IF Includes(Head(todo).name, warmUpPlugin) THEN SkipWarmUp(Tail(todo))
  ELSE todo

\* the loop of validateConcurrency reaches the functions `todo`: _deleteConcurrency
\* runs for the first it does not skip, up to its first request
DeleteConcurrencyFrom(ep, before, todo) ==
  LET rest == SkipWarmUp(todo)
  IN IF rest = <<>>
     THEN Returns(ep, before)
     ELSE LET func == [Head(rest) EXCEPT !.name = _getFunctionName(@)]
          IN /\ call' = [Idle EXCEPT
                           !.ep = ep,
                           !.before = before,
                           !.todo = <<func>> \o Tail(rest),
                           !.version = func.config.version,
                           !.pc = IF NeedsResolution(func.config.version)
                                  THEN "listVersionsByFunction"
                                  ELSE "listProvisionedConcurrencyConfigs"]
             /\ UNCHANGED <<log, host>>

\* _getVersionsWithProvisionedConcurrency, from the answer on
VersionsWithConcurrency(answer) ==
  IF ~ answer.ok THEN <<>>
  ELSE IF Falsy(answer.ProvisionedConcurrencyConfigs)
          \/ answer.ProvisionedConcurrencyConfigs.v = <<>>
       THEN <<>>
       ELSE answer.ProvisionedConcurrencyConfigs.v

\* the loop that stops after the first version
FirstVersion(versionsWithConcurrency) ==
  IF versionsWithConcurrency = <<>> THEN <<>>
  ELSE LET versionFromArn == _extractVersionFromArn(Head(versionsWithConcurrency).FunctionArn)
       IN IF Falsy(versionFromArn) THEN <<>> ELSE <<versionFromArn>>

\* the versions the loop of _manageEmptyConfiguration deletes, in order
RECURSIVE AllVersions(_)
AllVersions(versionsWithConcurrency) ==
  IF versionsWithConcurrency = <<>> THEN <<>>
  ELSE LET versionFromArn == _extractVersionFromArn(Head(versionsWithConcurrency).FunctionArn)
       IN (IF Falsy(versionFromArn) THEN <<>> ELSE <<versionFromArn>>)
            \o AllVersions(Tail(versionsWithConcurrency))

\* the loop that stops after the first version it deletes
FirstOtherVersion(versionsWithConcurrency, version) ==
  LET all == AllVersions(versionsWithConcurrency)
      others == {k \in DOMAIN all : all[k] # version}
  IN IF others = {} THEN <<>>
     ELSE <<all[CHOOSE k \in others : \A l \in others : k <= l]>>

\* the loop that does not spare the version being set
EveryVersion(versionsWithConcurrency, version) == AllVersions(versionsWithConcurrency)

\* the versions the loop of _managePreviousConcurrency deletes, in order
RECURSIVE OtherVersions(_, _)
OtherVersions(versionsWithConcurrency, version) ==
  IF versionsWithConcurrency = <<>> THEN <<>>
  ELSE LET versionFromArn == _extractVersionFromArn(Head(versionsWithConcurrency).FunctionArn)
       IN (IF versionFromArn = version \/ Falsy(versionFromArn)
           THEN <<>> ELSE <<versionFromArn>>)
            \o OtherVersions(Tail(versionsWithConcurrency), version)

\* func.config.provisioned === null || === undefined || === 0
IsEmptyConfiguration(config) ==
  IsNullish(config.provisioned) \/ config.provisioned = Num(0)

Validating == call.ep \in {"validateConcurrency", "validateConcurrencyForFunction"}

Configuration == <<functions, custom, options, cpuCount, arg, ret>>

\* the test that lets a single error through
HasSeveralErrors(validationErrors) == Len(validationErrors) > 1

\* validationErrors.length > 0
HasErrors(validationErrors) == Len(validationErrors) > 0

\* validateConcurrency, up to its first request
ValidateConcurrency ==
  /\ call = Idle
  /\ Stage \in {"before:deploy:deploy", "concurrency:validate:validate"}
  /\ LET validationErrors == _validateAllFunctions
         fs == _getConfiguredFunctions
     IN IF HasErrors(validationErrors)
        THEN Throws("validateConcurrency", lambda.configs,
                    MaximumConcurrencyError(validationErrors))
        ELSE IF Len(fs) = 0
        THEN Returns("validateConcurrency", lambda.configs)
        ELSE DeleteConcurrencyFrom("validateConcurrency", lambda.configs, fs)
  /\ UNCHANGED <<Configuration, lambda, tasks, requests, state>>

\* validateConcurrencyForFunction, up to its first request
ValidateConcurrencyForFunction ==
  /\ call = Idle
  /\ Stage = "before:deploy:function:deploy"
  /\ LET ep == "validateConcurrencyForFunction"
         func == IF Falsy(options) THEN Undefined
                 ELSE FindFunction(_getConfiguredFunctions, options.v)
     IN IF Falsy(options) \/ func = Undefined
        THEN Returns(ep, lambda.configs)
        ELSE LET error == _validateProvisionedConcurrency(func)
             IN IF ~ Falsy(error)
                THEN Throws(ep, lambda.configs, MaximumConcurrencyError(<<error>>))
                ELSE DeleteConcurrencyFrom(ep, lambda.configs, <<func>>)
  /\ UNCHANGED <<Configuration, lambda, tasks, requests, state>>

\* _deleteConcurrency: the listVersionsByFunction request of _getLatestVersion and
\* its answer; an error is caught and logged, and the loop goes on
DeleteConcurrencyResolve ==
  /\ Validating
  /\ call.pc = "listVersionsByFunction"
  /\ \E answer \in ListVersionsAnswers(Head(call.todo).name) :
       LET resolved == IF answer.ok THEN LatestOf(answer) ELSE Throw("ServiceException")
       IN IF resolved.ok
          THEN /\ call' = [call EXCEPT !.version = Str(resolved.value),
                                       !.pc = "listProvisionedConcurrencyConfigs"]
               /\ UNCHANGED <<log, host>>
          ELSE DeleteConcurrencyFrom(call.ep, call.before, Tail(call.todo))
  /\ UNCHANGED <<Configuration, lambda, tasks, requests, state>>

\* _manageEmptyConfiguration / _managePreviousConcurrency: the
\* listProvisionedConcurrencyConfigs request and its answer
DeleteConcurrencyList ==
  /\ Validating
  /\ call.pc = "listProvisionedConcurrencyConfigs"
  /\ \E answer \in ListConfigsAnswers(Head(call.todo).name) :
       LET versionsWithConcurrency == VersionsWithConcurrency(answer)
           pending == IF IsEmptyConfiguration(Head(call.todo).config)
                      THEN AllVersions(versionsWithConcurrency)
                      ELSE OtherVersions(versionsWithConcurrency, call.version)
       IN IF pending = <<>>
          THEN DeleteConcurrencyFrom(call.ep, call.before, Tail(call.todo))
          ELSE /\ call' = [call EXCEPT !.pending = pending,
                                       !.pc = "deleteProvisionedConcurrencyConfig"]
               /\ UNCHANGED <<log, host>>
  /\ UNCHANGED <<Configuration, lambda, tasks, requests, state>>

\* answers to deleteProvisionedConcurrencyConfig { FunctionName, Qualifier }
DeleteAnswers(functionName, qualifier) ==
  Faults \cup (IF HasConfig(functionName, qualifier) THEN {[ok |-> TRUE]} ELSE {Failure})

\* _deleteProvisionedConcurrency for the next version of the loop; an error is
\* logged and thrown again, which ends _deleteConcurrency for this function
DeleteConcurrencyDelete ==
  /\ Validating
  /\ call.pc = "deleteProvisionedConcurrencyConfig"
  /\ LET functionName == Head(call.todo).name
         version == Head(call.pending)
     IN \E answer \in DeleteAnswers(functionName, version.v) :
          /\ requests' = Issued(call.ep, "deleteProvisionedConcurrencyConfig", functionName, version.v, 0, answer)
          /\ IF answer.ok
             THEN /\ lambda' = AfterDelete(functionName, version.v)
                  /\ IF Tail(call.pending) = <<>>
                     THEN DeleteConcurrencyFrom(call.ep, call.before, Tail(call.todo))
                     ELSE /\ call' = [call EXCEPT !.pending = Tail(@)]
                          /\ UNCHANGED <<log, host>>
             ELSE /\ lambda' = lambda
                  /\ DeleteConcurrencyFrom(call.ep, call.before, Tail(call.todo))
  /\ UNCHANGED <<Configuration, tasks, state>>

(************************ applying the capacity *****************************)
\* maxAttempts of _waitForProvisionedConcurrencyReady
maxAttempts == 30

(* The progress state object of an apply entry point: state.progress is the  *)
(* indicator it holds ("indicator"), the object without effect the finally   *)
(* clause leaves in its place ("noop"), or nothing yet ("none"); displayed   *)
(* is the number of indicators created and not removed. The timer that        *)
(* replaces the indicator every second until the finally clause clears it     *)
(* changes the message only and is left out.                                  *)
NoState == [progress |-> "none", completedCount |-> 0, totalCount |-> 0, displayed |-> 0]

\* const state = { progress: this.progress.create(...), completedCount: 0,
\* totalCount: totalCount, ... }
Created(totalCount) ==
  [progress |-> "indicator", completedCount |-> 0, totalCount |-> totalCount,
   displayed |-> 1]

\* if (state.progress) { state.progress.remove(); state.progress = this.progress.create(...) }
Replaced(st) ==
  IF st.progress = "none" THEN st
  ELSE [st EXCEPT !.progress = "indicator",
                  !.displayed = IF st.progress = "indicator" THEN @ ELSE @ + 1]

\* an entry point without a finally clause
FinallyNothing(st) == st

\* finally { clearInterval(updateInterval); if (state.progress) {
\* state.progress.remove(); state.progress = { remove: () => {} } } }
Finally(st) ==
  IF st.progress = "none" THEN st
  ELSE [st EXCEPT !.progress = "noop",
                  !.displayed = IF st.progress = "indicator" THEN @ - 1 ELSE @]

Applying == call.ep \in {"setProvisionedConcurrency", "setProvisionedConcurrencyForFunction"}

Queued(func) ==
  [func |-> func, pc |-> "queued", attempt |-> 0, error |-> NoError, polled |-> "none"]

\* _processFunction, up to its first request
Started(task) ==
  LET func == [task.func EXCEPT !.name = _getFunctionName(@)]
  IN [task EXCEPT !.func = func,
                  !.pc = IF NeedsResolution(func.config.version)
                         THEN "listVersionsByFunction"
                         ELSE "listProvisionedConcurrencyConfigs"]

IsRunning(task) == task.pc \notin {"queued", "done", "failed"}

Running(ts) == {i \in DOMAIN ts : IsRunning(ts[i])}

\* a pool without a limit: every queued task is started
StartAll(ts) ==
  [i \in DOMAIN ts |-> IF ts[i].pc = "queued" THEN Started(ts[i]) ELSE ts[i]]

\* p-limit: the queued tasks are started in order while fewer than cpuCount run
RECURSIVE StartQueued(_)
StartQueued(ts) ==
  IF Cardinality(Running(ts)) < cpuCount /\ \E i \in DOMAIN ts : ts[i].pc = "queued"
  THEN LET i == CHOOSE j \in DOMAIN ts :
                  ts[j].pc = "queued" /\ \A k \in 1..(j - 1) : ts[k].pc # "queued"
       IN StartQueued([ts EXCEPT ![i] = Started(ts[i])])
  ELSE ts

\* functions.filter((func) => !func.name.includes('warmUpPlugin')).map(...)
RECURSIVE TasksOf(_)
TasksOf(fs) ==
  IF fs = <<>> THEN <<>>
  ELSE (IF Includes(Head(fs).name, warmUpPlugin) THEN <<>> ELSE <<Queued(Head(fs))>>)
         \o TasksOf(Tail(fs))

Awaiting(ep, pc) == [Idle EXCEPT !.ep = ep, !.pc = pc, !.before = lambda.configs]

\* setProvisionedConcurrency, up to the first request of its tasks
SetProvisionedConcurrency ==
  /\ call = Idle
  /\ Stage = "after:aws:deploy:deploy:updateStack"
  /\ LET ep == "setProvisionedConcurrency"
         fs == _getConfiguredFunctions
     IN IF Len(fs) = 0
        THEN /\ ReturnsSaying(ep, lambda.configs,
                              "No functions configured for provisioned concurrency")
             /\ tasks' = <<>>
             /\ state' = state
        ELSE IF TasksOf(fs) = <<>>
        THEN /\ ReturnsSaying(ep, lambda.configs, Completed("Promise.all"))
             /\ tasks' = <<>>
             /\ state' = Finally(Created(Len(fs)))
        ELSE /\ tasks' = StartQueued(TasksOf(fs))
             /\ call' = Awaiting(ep, "Promise.all")
             /\ state' = Created(Len(fs))
             /\ UNCHANGED <<log, host>>
  /\ UNCHANGED <<Configuration, lambda, requests>>

\* setProvisionedConcurrencyForFunction, up to its first request
SetProvisionedConcurrencyForFunction ==
  /\ call = Idle
  /\ Stage = "after:deploy:function:deploy"
  /\ LET ep == "setProvisionedConcurrencyForFunction"
         functionConfig == IF Falsy(options) THEN Undefined
                           ELSE FindFunction(_getConfiguredFunctions, options.v)
     IN IF Falsy(options) \/ functionConfig = Undefined
        THEN /\ Returns(ep, lambda.configs)
             /\ tasks' = <<>>
             /\ state' = state
        ELSE IF Falsy(functionConfig.config.provisioned)
        THEN /\ call' = [Awaiting(ep, "listProvisionedConcurrencyConfigs") EXCEPT
                           !.todo = <<[functionConfig EXCEPT !.name = _getFunctionName(@)]>>]
             /\ tasks' = <<>>
             /\ UNCHANGED <<log, host, state>>
        ELSE LET validationError == _validateProvisionedConcurrency(functionConfig)
             IN IF ~ Falsy(validationError)
                THEN /\ Throws(ep, lambda.configs, MaximumConcurrencyError(<<validationError>>))
                     /\ tasks' = <<>>
                     /\ state' = state
                ELSE /\ tasks' = <<Started(Queued(functionConfig))>>
                     /\ call' = Awaiting(ep, "_processFunction")
                     /\ state' = Created(1)
                     /\ UNCHANGED <<log, host>>
  /\ UNCHANGED <<Configuration, lambda, requests>>

\* setProvisionedConcurrencyForFunction without a configured capacity: the
\* listProvisionedConcurrencyConfigs request and its answer
ClearList ==
  /\ call.ep = "setProvisionedConcurrencyForFunction"
  /\ call.pc = "listProvisionedConcurrencyConfigs"
  /\ \E answer \in ListConfigsAnswers(Head(call.todo).name) :
       LET pending == AllVersions(VersionsWithConcurrency(answer))
       IN IF pending = <<>>
          THEN Returns(call.ep, call.before)
          ELSE /\ call' = [call EXCEPT !.pending = pending,
                                       !.pc = "deleteProvisionedConcurrencyConfig"]
               /\ UNCHANGED <<log, host>>
  /\ UNCHANGED <<Configuration, lambda, tasks, requests, state>>

\* ... and the delete of the next version; nothing catches its error
ClearDelete ==
  /\ call.ep = "setProvisionedConcurrencyForFunction"
  /\ call.pc = "deleteProvisionedConcurrencyConfig"
  /\ LET functionName == Head(call.todo).name
         version == Head(call.pending)
     IN \E answer \in DeleteAnswers(functionName, version.v) :
          /\ requests' = Issued(call.ep, "deleteProvisionedConcurrencyConfig", functionName, version.v, 0, answer)
          /\ IF answer.ok
             THEN /\ lambda' = AfterDelete(functionName, version.v)
                  /\ IF Tail(call.pending) = <<>>
                     THEN Returns(call.ep, call.before)
                     ELSE /\ call' = [call EXCEPT !.pending = Tail(@)]
                          /\ UNCHANGED <<log, host>>
             ELSE /\ lambda' = lambda
                  /\ Throws(call.ep, call.before, ProviderError)
  /\ UNCHANGED <<Configuration, tasks, state>>

\* the entry point whose tasks these are; the tasks of setProvisionedConcurrency
\* go on after it has thrown
TaskOwner ==
  IF host.command = "deployFunction" THEN "setProvisionedConcurrencyForFunction"
  ELSE "setProvisionedConcurrency"

\* the progress state as task i leaves it at its end: the wait replaces the
\* indicator on its way out, and _processFunction counts the task and replaces
\* the indicator once more when the task succeeded
Progressed(i, pc) ==
  LET left == IF tasks[i].pc = "getProvisionedConcurrencyConfig"
              THEN Replaced(state) ELSE state
  IN IF pc = "done" THEN [Replaced(left) EXCEPT !.completedCount = @ + 1] ELSE left

\* the end of a task that, when the task failed, leaves the queue where it is
TaskEndsCancelling(i, pc, error, polled) ==
  LET ended == [tasks EXCEPT ![i].pc = pc, ![i].error = error, ![i].attempt = 0,
                             ![i].polled = polled]
  IN /\ tasks' = IF pc = "failed" THEN ended ELSE StartQueued(ended)
     /\ IF ~ Applying
        THEN /\ state' = Progressed(i, pc)
             /\ UNCHANGED <<call, log, host>>
        ELSE IF pc = "failed"
        THEN /\ state' = Finally(Progressed(i, pc))
             /\ Throws(call.ep, call.before, error)
        ELSE IF \A j \in DOMAIN ended : ended[j].pc = "done"
        THEN /\ state' = Finally(Progressed(i, pc))
             /\ Returns(call.ep, call.before)
        ELSE /\ state' = Progressed(i, pc)
             /\ UNCHANGED <<call, log, host>>

\* the end of a task whose failure is kept from the entry point that awaits it
TaskEndsSwallowing(i, pc, error, polled) ==
  LET ended == [tasks EXCEPT ![i].pc = pc, ![i].error = error, ![i].attempt = 0,
                             ![i].polled = polled]
  IN /\ tasks' = StartQueued(ended)
     /\ IF ~ Applying
        THEN /\ state' = Progressed(i, pc)
             /\ UNCHANGED <<call, log, host>>
        ELSE IF \A j \in DOMAIN ended : ended[j].pc \in {"done", "failed"}
        THEN /\ state' = Finally(Progressed(i, pc))
             /\ Returns(call.ep, call.before)
        ELSE /\ state' = Progressed(i, pc)
             /\ UNCHANGED <<call, log, host>>

\* task i ends, `polled` being what its last readiness poll was answered:
\* p-limit starts the next queued task, and the entry point that awaits the
\* tasks returns once all are done or throws at the first failure
TaskEnds(i, pc, error, polled) ==
  LET ended == [tasks EXCEPT ![i].pc = pc, ![i].error = error, ![i].attempt = 0,
                             ![i].polled = polled]
  IN /\ tasks' = StartQueued(ended)
     /\ IF ~ Applying
        THEN /\ state' = Progressed(i, pc)
             /\ UNCHANGED <<call, log, host>>
        ELSE IF pc = "failed"
        THEN /\ state' = Finally(Progressed(i, pc))
             /\ Throws(call.ep, call.before, error)
        ELSE IF \A j \in DOMAIN ended : ended[j].pc = "done"
        THEN /\ state' = Finally(Progressed(i, pc))
             /\ Returns(call.ep, call.before)
        ELSE /\ state' = Progressed(i, pc)
             /\ UNCHANGED <<call, log, host>>

\* _processFunction: the listVersionsByFunction request of _getLatestVersion
TaskResolve(i) ==
  /\ tasks[i].pc = "listVersionsByFunction"
  /\ \E answer \in ListVersionsAnswers(tasks[i].func.name) :
       LET resolved == IF answer.ok THEN LatestOf(answer) ELSE Throw("ServiceException")
       IN IF resolved.ok
          THEN /\ tasks' = [tasks EXCEPT
                              ![i].func.config.version = Str(resolved.value),
                              ![i].pc = "listProvisionedConcurrencyConfigs"]
               /\ UNCHANGED <<call, log, host, state>>
          ELSE TaskEnds(i, "failed",
                        IF answer.ok THEN NoVersionFoundError ELSE ProviderError, "none")
  /\ UNCHANGED <<Configuration, lambda, requests>>

\* func.config.provisioned !== null && func.config.provisioned > 0
HasCapacity(config) == config.provisioned # Null /\ GreaterThan(config.provisioned, 0)

\* the task that deletes the provisioned concurrency of the other versions it
\* lists, one request at a time, before it goes on
TaskListDeleting(i) ==
  /\ tasks[i].pc = "listProvisionedConcurrencyConfigs"
  /\ LET func == tasks[i].func
         others == OtherVersions(ListOf(ConfigsOf(func.name)), func.config.version)
     IN IF others # <<>>
        THEN /\ requests' = Issued(TaskOwner, "deleteProvisionedConcurrencyConfig",
                                   func.name, Head(others).v, 0, [ok |-> TRUE])
             /\ lambda' = AfterDelete(func.name, Head(others).v)
             /\ UNCHANGED <<tasks, call, log, host, state>>
        ELSE /\ IF HasCapacity(func.config)
                THEN /\ tasks' = [tasks EXCEPT ![i].pc = "putProvisionedConcurrencyConfig"]
                     /\ UNCHANGED <<call, log, host, state>>
                ELSE TaskEnds(i, "done", NoError, "none")
             /\ UNCHANGED <<lambda, requests>>
  /\ UNCHANGED Configuration

\* the task that a failure of the list request ends
TaskListAborting(i) ==
  /\ tasks[i].pc = "listProvisionedConcurrencyConfigs"
  /\ \E answer \in ListConfigsAnswers(tasks[i].func.name) :
       IF ~ answer.ok THEN TaskEnds(i, "failed", ProviderError, "none")
       ELSE IF HasCapacity(tasks[i].func.config)
       THEN /\ tasks' = [tasks EXCEPT ![i].pc = "putProvisionedConcurrencyConfig"]
            /\ UNCHANGED <<call, log, host, state>>
       ELSE TaskEnds(i, "done", NoError, "none")
  /\ UNCHANGED <<Configuration, lambda, requests>>

\* _processFunction: the listProvisionedConcurrencyConfigs request, whose answer
\* is dropped
TaskList(i) ==
  /\ tasks[i].pc = "listProvisionedConcurrencyConfigs"
  /\ \E answer \in ListConfigsAnswers(tasks[i].func.name) :
       IF HasCapacity(tasks[i].func.config)
       THEN /\ tasks' = [tasks EXCEPT ![i].pc = "putProvisionedConcurrencyConfig"]
            /\ UNCHANGED <<call, log, host, state>>
       ELSE TaskEnds(i, "done", NoError, "none")
  /\ UNCHANGED <<Configuration, lambda, requests>>

\* answers to putProvisionedConcurrencyConfig { FunctionName, Qualifier, ... }
PutAnswers(functionName, qualifier) ==
  Faults \cup (IF HasVersion(functionName, qualifier) THEN {[ok |-> TRUE]} ELSE {Failure})

\* the put whose error is swallowed: the wait begins whatever the answer
TaskPutWaitingAnyway(i) ==
  /\ tasks[i].pc = "putProvisionedConcurrencyConfig"
  /\ LET func == tasks[i].func
     IN \E answer \in PutAnswers(func.name, func.config.version.v) :
          /\ requests' = Issued(TaskOwner, "putProvisionedConcurrencyConfig", func.name,
                         func.config.version.v, func.config.provisioned.v, answer)
          /\ lambda' = IF answer.ok
                       THEN AfterPut(func.name, func.config.version.v,
                                     func.config.provisioned.v)
                       ELSE lambda
          /\ tasks' = [tasks EXCEPT ![i].pc = "getProvisionedConcurrencyConfig"]
          /\ state' = Replaced(state)
          /\ UNCHANGED <<call, log, host>>
  /\ UNCHANGED Configuration

\* _setProvisionedConcurrency: the putProvisionedConcurrencyConfig request; the
\* wait that follows it begins by replacing the indicator
TaskPut(i) ==
  /\ tasks[i].pc = "putProvisionedConcurrencyConfig"
  /\ LET func == tasks[i].func
     IN \E answer \in PutAnswers(func.name, func.config.version.v) :
          /\ requests' = Issued(TaskOwner, "putProvisionedConcurrencyConfig", func.name,
                         func.config.version.v, func.config.provisioned.v, answer)
          /\ IF answer.ok
             THEN /\ lambda' = AfterPut(func.name, func.config.version.v,
                                        func.config.provisioned.v)
                  /\ tasks' = [tasks EXCEPT ![i].pc = "getProvisionedConcurrencyConfig"]
                  /\ state' = Replaced(state)
                  /\ UNCHANGED <<call, log, host>>
             ELSE /\ lambda' = lambda
                  /\ TaskEnds(i, "failed", ProviderError, "none")
  /\ UNCHANGED Configuration

\* what a poll observed: the Status of the response, or the error's message
Observed(answer) == IF answer.ok THEN answer.Status ELSE answer.message

\* the wait that gives up without an error once its attempts are used up
TaskPollIgnoringTimeout(i) ==
  /\ tasks[i].pc = "getProvisionedConcurrencyConfig"
  /\ tasks[i].attempt < maxAttempts
  /\ LET func == tasks[i].func
     IN \E answer \in GetConfigAnswers(func.name, func.config.version.v) :
          IF ~ answer.ok
          THEN TaskEnds(i, "failed", ProviderError, Observed(answer))
          ELSE IF answer.Status = "READY" \/ tasks[i].attempt + 1 = maxAttempts
          THEN TaskEnds(i, "done", NoError, Observed(answer))
          ELSE /\ tasks' = [tasks EXCEPT ![i].attempt = @ + 1,
                                         ![i].polled = Observed(answer)]
               /\ state' = Replaced(state)
               /\ UNCHANGED <<call, log, host>>
  /\ UNCHANGED <<Configuration, lambda, requests>>

\* the wait that takes any answered poll for readiness
TaskPollReturningAtOnce(i) ==
  /\ tasks[i].pc = "getProvisionedConcurrencyConfig"
  /\ tasks[i].attempt < maxAttempts
  /\ LET func == tasks[i].func
     IN \E answer \in GetConfigAnswers(func.name, func.config.version.v) :
          IF ~ answer.ok
          THEN TaskEnds(i, "failed", ProviderError, Observed(answer))
          ELSE TaskEnds(i, "done", NoError, Observed(answer))
  /\ UNCHANGED <<Configuration, lambda, requests>>

\* the wait that takes a poll that raised an error for one more attempt
TaskPollRetrying(i) ==
  /\ tasks[i].pc = "getProvisionedConcurrencyConfig"
  /\ tasks[i].attempt < maxAttempts
  /\ LET func == tasks[i].func
     IN \E answer \in GetConfigAnswers(func.name, func.config.version.v) :
          IF answer.ok /\ answer.Status = "READY"
          THEN TaskEnds(i, "done", NoError, Observed(answer))
          ELSE IF tasks[i].attempt + 1 < maxAttempts
          THEN /\ tasks' = [tasks EXCEPT ![i].attempt = @ + 1,
                                         ![i].polled = Observed(answer)]
               /\ state' = Replaced(state)
               /\ UNCHANGED <<call, log, host>>
          ELSE TaskEnds(i, "failed", TimeoutError, Observed(answer))
  /\ UNCHANGED <<Configuration, lambda, requests>>

\* _waitForProvisionedConcurrencyReady: one getProvisionedConcurrencyConfig
\* request of the loop, and the delay after it
TaskPoll(i) ==
  /\ tasks[i].pc = "getProvisionedConcurrencyConfig"
  /\ tasks[i].attempt < maxAttempts
  /\ LET func == tasks[i].func
     IN \E answer \in GetConfigAnswers(func.name, func.config.version.v) :
          IF ~ answer.ok
          THEN TaskEnds(i, "failed", ProviderError, Observed(answer))
          ELSE IF answer.Status = "READY"
          THEN TaskEnds(i, "done", NoError, Observed(answer))
          ELSE IF tasks[i].attempt + 1 < maxAttempts
          THEN /\ tasks' = [tasks EXCEPT ![i].attempt = @ + 1,
                                         ![i].polled = Observed(answer)]
               /\ state' = Replaced(state)
               /\ UNCHANGED <<call, log, host>>
          ELSE TaskEnds(i, "failed", TimeoutError, Observed(answer))
  /\ UNCHANGED <<Configuration, lambda, requests>>

(************************** around the plugin ******************************)
\* the provider allocates, or fails to allocate, a requested capacity
Settle ==
  /\ \E c \in lambda.configs, status \in {"READY"} \cup {"FAILED" : f \in Faults} :
       /\ c.status = "IN_PROGRESS"
       /\ lambda' = [lambda EXCEPT !.configs = (@ \ {c}) \cup {[c EXCEPT !.status = status]}]
  /\ UNCHANGED <<Configuration, host, call, tasks, log, requests, state>>

\* the functions a command deploys
Deployed ==
  IF host.command \in {"deploy", "redeploy"} THEN DOMAIN lambda.versions
  ELSE IF Falsy(options) THEN {}
  ELSE {_getFunctionName(options.v)} \cap DOMAIN lambda.versions

\* the stack update (or the function deployment) publishes a version of a
\* function; the same functions deployed again publish none
PublishVersion ==
  /\ Stage \in {"deploy:deploy", "deploy:function:deploy"}
  /\ host.step <= Len(Lifecycle.deploy)
  /\ \E functionName \in Deployed \ host.published :
       /\ lambda' = [lambda EXCEPT !.versions[functionName] =
                       Append(@, DecimalString(Len(@)))]
       /\ host' = [host EXCEPT !.published = @ \cup {functionName}]
  /\ UNCHANGED <<Configuration, call, tasks, log, requests, state>>

\* the stack update is over: the host goes on to the hooks after it
UpdateDone ==
  /\ Stage \in {"deploy:deploy", "deploy:function:deploy"}
  /\ host' = [host EXCEPT !.step = @ + 1]
  /\ UNCHANGED <<Configuration, lambda, call, tasks, log, requests, state>>

(***************************** the system **********************************)
world == <<"world">>
warmUpPluginDefault == <<warmUpPlugin, "Default">>

\* version references of a manifest: none, 'latest', the first version, and the
\* version the next deployment of a function with MaxVersions versions publishes
VersionRefs == {Undefined, Str(latest), Str(<<"1">>), Str(DecimalString(MaxVersions + 1))}

\* the entries a manifest of one function is drawn from
WideEntries ==
  {FunctionConfig(provisioned, version, reserved) :
     provisioned \in {Undefined} \cup {Num(n) : n \in 0..MaxUnits},
     version \in VersionRefs,
     reserved \in {Undefined, Num(MaxUnits)}}

\* the entries a manifest of two functions is drawn from: no capacity, a capacity
\* within the limit, a capacity above the limit
NarrowEntries ==
  {FunctionConfig(Undefined, Undefined, Undefined),
   FunctionConfig(Num(1), Undefined, Undefined),
   FunctionConfig(Num(MaxUnits), Undefined, Num(MaxUnits))}

Manifests ==
  {<<>>}
    \cup {<<[name |-> name, config |-> config]>> :
            name \in {hello, warmUpPluginDefault}, config \in WideEntries}
    \cup {<<[name |-> hello, config |-> first], [name |-> name, config |-> second]>> :
            first \in NarrowEntries, name \in {world, warmUpPluginDefault},
            second \in NarrowEntries}

\* the configs left by earlier deployments: any of the versions may hold one
ConfigsHeld(functionName, holders) ==
  {[FunctionName |-> functionName, Qualifier |-> DecimalString(n),
    FunctionArn |-> Str(FunctionArn(functionName, DecimalString(n))),
    requested |-> 1, status |-> "READY"] : n \in holders}

\* the provider before the command: a lone function has up to MaxVersions
\* numbered versions, any of which may hold a config; each of two functions has
\* one numbered version, and either both hold a config or neither does
ProviderStates(manifest) ==
  IF Len(manifest) = 0 THEN {[versions |-> <<>>, configs |-> {}, faulty |-> TRUE]}
  ELSE IF Len(manifest) = 1
  THEN LET functionName == _getFunctionName(manifest[1].name)
       IN {[versions |-> (functionName :> VersionsUpTo(n)),
            configs |-> ConfigsHeld(functionName, holders), faulty |-> TRUE] :
             <<n, holders>> \in {<<n, holders>> \in (0..MaxVersions) \X SUBSET (1..MaxVersions) :
                                   holders \subseteq 1..n}}
  ELSE LET first == _getFunctionName(manifest[1].name)
           second == _getFunctionName(manifest[2].name)
       IN {[versions |-> (first :> VersionsUpTo(1)) @@ (second :> VersionsUpTo(1)),
            configs |-> ConfigsHeld(first, holders) \cup ConfigsHeld(second, holders),
            faulty |-> TRUE] :
             holders \in SUBSET {1}}

\* os.cpus().length: a pool wider than the manifest is long runs as one as wide as it
CpuCounts(manifest) == {n \in 1..MaxCpus : n = 1 \/ n <= Len(manifest)}

\* the function named on the command line
FunctionOptions(manifest) ==
  {Undefined, Str(<<"other">>)} \cup {Str(manifest[i].name) : i \in DOMAIN manifest}

Init ==
  /\ functions \in Manifests
  /\ custom = Undefined
  /\ lambda \in ProviderStates(functions)
  /\ cpuCount \in CpuCounts(functions)
  /\ \E command \in Commands :
       /\ host = [command |-> command, step |-> 1, published |-> {}, aborted |-> FALSE]
       /\ options \in IF command = "deployFunction" THEN FunctionOptions(functions)
                      ELSE {Undefined}
  /\ call = Idle
  /\ tasks = <<>>
  /\ log = <<>>
  /\ requests = <<>>
  /\ state = NoState
  /\ arg = Pending
  /\ ret = Pending

Next ==
  \/ ValidateConcurrency
  \/ ValidateConcurrencyForFunction
  \/ DeleteConcurrencyResolve
  \/ DeleteConcurrencyList
  \/ DeleteConcurrencyDelete
  \/ SetProvisionedConcurrency
  \/ SetProvisionedConcurrencyForFunction
  \/ ClearList
  \/ ClearDelete
  \/ \E i \in DOMAIN tasks : TaskResolve(i)
  \/ \E i \in DOMAIN tasks : TaskList(i)
  \/ \E i \in DOMAIN tasks : TaskPut(i)
  \/ \E i \in DOMAIN tasks : TaskPoll(i)
  \/ Settle
  \/ PublishVersion
  \/ UpdateDone

Spec == Init /\ [][Next]_vars

\* `serverless deploy` run twice, the manifest unchanged, against a provider
\* that serves every request it can serve
InitTwice ==
  /\ functions \in Manifests
  /\ custom = Undefined
  /\ lambda \in {[p EXCEPT !.faulty = FALSE] : p \in ProviderStates(functions)}
  /\ cpuCount \in CpuCounts(functions)
  /\ host = [command |-> "redeploy", step |-> 1, published |-> {}, aborted |-> FALSE]
  /\ options = Undefined
  /\ call = Idle
  /\ tasks = <<>>
  /\ log = <<>>
  /\ requests = <<>>
  /\ state = NoState
  /\ arg = Pending
  /\ ret = Pending

NextTwice ==
  \/ ValidateConcurrency
  \/ DeleteConcurrencyResolve
  \/ DeleteConcurrencyList
  \/ DeleteConcurrencyDelete
  \/ SetProvisionedConcurrency
  \/ \E i \in DOMAIN tasks : TaskResolve(i)
  \/ \E i \in DOMAIN tasks : TaskList(i)
  \/ \E i \in DOMAIN tasks : TaskPut(i)
  \/ \E i \in DOMAIN tasks : TaskPoll(i)
  \/ Settle
  \/ PublishVersion
  \/ UpdateDone

SpecTwice == InitTwice /\ [][NextTwice]_vars

\* identifiers that are not the ARN of a function version: none, the empty
\* string, and the ARN of the function without a version
MalformedArns(functionName) ==
  {Undefined, Str(<<>>),
   Str(<<"arn", ":", "aws", ":", "lambda", ":", Region, ":", Account, ":", "function", ":">>
         \o functionName)}

\* the ways of listing some configs of a set under a malformed identifier
Mislisted(configs) ==
  {{arns[c] : c \in configs} :
     arns \in {f \in [configs -> UNION {{c} \cup {[c EXCEPT !.FunctionArn = a] :
                                                   a \in MalformedArns(c.FunctionName)} :
                                           c \in configs}] :
                /\ \A c \in configs : f[c].Qualifier = c.Qualifier
                /\ \E c \in configs : f[c] # c}}

\* `serverless concurrency validate` for one function, against a provider that
\* lists some of its configs under a malformed identifier
InitMalformed ==
  /\ functions \in {<<[name |-> hello, config |-> config]>> : config \in WideEntries}
  /\ custom = Undefined
  /\ \E p \in ProviderStates(functions) :
       /\ p.configs # {}
       /\ lambda \in {[p EXCEPT !.configs = cs, !.faulty = faulty] :
                        cs \in Mislisted(p.configs), faulty \in BOOLEAN}
  /\ cpuCount = 1
  /\ host = [command |-> "validate", step |-> 1, published |-> {}, aborted |-> FALSE]
  /\ options = Undefined
  /\ call = Idle
  /\ tasks = <<>>
  /\ log = <<>>
  /\ requests = <<>>
  /\ state = NoState
  /\ arg = Pending
  /\ ret = Pending

NextMalformed ==
  \/ ValidateConcurrency
  \/ DeleteConcurrencyResolve
  \/ DeleteConcurrencyList
  \/ DeleteConcurrencyDelete

SpecMalformed == InitMalformed /\ [][NextMalformed]_vars

\* `serverless concurrency validate` for one function of which many versions,
\* up to MaxRecords, each hold a config, against a provider that fails nothing
InitMany ==
  /\ functions \in {<<[name |-> hello, config |-> FunctionConfig(provisioned, version, Undefined)]>> :
                      provisioned \in {Undefined, Num(1)},
                      version \in {Undefined, Str(<<"1">>), Str(DecimalString(MaxRecords))}}
  /\ custom = Undefined
  /\ \E n \in {MaxItems - 1, MaxItems, MaxRecords} :
       lambda = [versions |-> (_getFunctionName(hello) :> VersionsUpTo(MaxRecords)),
                 configs |-> ConfigsHeld(_getFunctionName(hello), 1..n),
                 faulty |-> FALSE]
  /\ cpuCount = 1
  /\ host = [command |-> "validate", step |-> 1, published |-> {}, aborted |-> FALSE]
  /\ options = Undefined
  /\ call = Idle
  /\ tasks = <<>>
  /\ log = <<>>
  /\ requests = <<>>
  /\ state = NoState
  /\ arg = Pending
  /\ ret = Pending

NextMany ==
  \/ ValidateConcurrency
  \/ DeleteConcurrencyResolve
  \/ DeleteConcurrencyList
  \/ DeleteConcurrencyDelete

SpecMany == InitMany /\ [][NextMany]_vars

\* a command run from its first event, or the host firing the hook bound to an
\* apply entry point without the validation hook having run before it: the
\* lifecycle is then entered at its last event
InitApplied ==
  /\ functions \in Manifests
  /\ custom = Undefined
  /\ lambda \in ProviderStates(functions)
  /\ cpuCount \in CpuCounts(functions)
  /\ \E command \in {"deploy", "deployFunction"} :
       /\ \E step \in {1, Len(Lifecycle[command])} :
            host = [command |-> command, step |-> step, published |-> {}, aborted |-> FALSE]
       /\ options \in IF command = "deployFunction" THEN FunctionOptions(functions)
                      ELSE {Undefined}
  /\ call = Idle
  /\ tasks = <<>>
  /\ log = <<>>
  /\ requests = <<>>
  /\ state = NoState
  /\ arg = Pending
  /\ ret = Pending

NextApplied ==
  \/ ValidateConcurrency
  \/ ValidateConcurrencyForFunction
  \/ DeleteConcurrencyResolve
  \/ DeleteConcurrencyList
  \/ DeleteConcurrencyDelete
  \/ SetProvisionedConcurrency
  \/ SetProvisionedConcurrencyForFunction
  \/ ClearList
  \/ ClearDelete
  \/ \E i \in DOMAIN tasks : TaskResolve(i)
  \/ \E i \in DOMAIN tasks : TaskList(i)
  \/ \E i \in DOMAIN tasks : TaskPut(i)
  \/ \E i \in DOMAIN tasks : TaskPoll(i)
  \/ Settle
  \/ PublishVersion
  \/ UpdateDone

SpecApplied == InitApplied /\ [][NextApplied]_vars

\* a task takes its next step: the provider answers the request it awaits
TaskStep ==
  \E i \in DOMAIN tasks : TaskResolve(i) \/ TaskList(i) \/ TaskPut(i) \/ TaskPoll(i)

\* every request a task awaits is answered in the end, and the event loop then
\* runs the task on
FairSpec == Spec /\ WF_vars(TaskStep)

(************************ claims on a command ******************************)
\* the declared capacity of function i, none counting as 0
Desired(i) ==
  LET provisioned == _normalizeConfig(functions[i].config).provisioned
  IN IF provisioned.t = "num" THEN provisioned.v ELSE 0

\* the numbered versions the provider has of a function
NumberedVersions(functionName) ==
  {lambda.versions[functionName][k] : k \in DOMAIN lambda.versions[functionName]} \ {LATEST}

\* the version the capacity of function i is meant for: the declared one, or the
\* numerically greatest the provider has
TargetVersions(i) ==
  LET version == _normalizeConfig(functions[i].config).version
      numbered == NumberedVersions(_getFunctionName(functions[i].name))
  IN IF NeedsResolution(version)
     THEN {v \in numbered : \A w \in numbered : parseInt(w) <= parseInt(v)}
     ELSE {version.v}

\* validateConcurrency, then setProvisionedConcurrency, both returned
DeployReturned ==
  /\ host.command = "deploy"
  /\ Len(log) = 2
  /\ ~ log[1].threw
  /\ ~ log[2].threw

\* C1: after validateConcurrency and setProvisionedConcurrency both returned
\* without error, with no change made to the provider from outside, every
\* declared function with a desired capacity > 0 has exactly one version with a
\* READY provisioned record: the resolved target version, holding the declared
\* capacity.
C1_OneReadyVersionAfterRun ==
  (DeployReturned /\ host.published = {}) =>
    \A i \in DOMAIN functions :
      Desired(i) > 0 =>
        /\ \A c \in ConfigsOf(_getFunctionName(functions[i].name)) :
             /\ c.status = "READY"
             /\ c.Qualifier \in TargetVersions(i)
             /\ c.requested = Desired(i)
        /\ Cardinality(ConfigsOf(_getFunctionName(functions[i].name))) = 1

\* C2: after validateConcurrency and setProvisionedConcurrency both returned
\* without error, no version of a declared function whose desired capacity is 0
\* or null holds a provisioned record.
C2_NoRecordWithoutCapacity ==
  DeployReturned =>
    \A i \in DOMAIN functions :
      Desired(i) = 0 => ConfigsOf(_getFunctionName(functions[i].name)) = {}

\* C3: in a full deployment (validateConcurrency, a stack update that publishes
\* a new version, setProvisionedConcurrency), a function with a desired capacity
\* > 0 and no version reference, or 'latest', ends with provisioned concurrency
\* on one version only: the newly published one.
C3_OnlyNewVersionAfterDeploy ==
  DeployReturned =>
    \A i \in DOMAIN functions :
      (/\ Desired(i) > 0
       /\ NeedsResolution(_normalizeConfig(functions[i].config).version)
       /\ _getFunctionName(functions[i].name) \in host.published)
      => {c.Qualifier : c \in ConfigsOf(_getFunctionName(functions[i].name))}
           = TargetVersions(i)

\* the declared functions that fail validation
FailingFunctions ==
  {i \in DOMAIN functions : _validateProvisionedConcurrency(_getConfiguredFunctions[i]) # Null}

\* the function the command line selects fails validation
SelectedFails ==
  /\ ~ Falsy(options)
  /\ \E i \in FailingFunctions :
       /\ functions[i].name = options.v
       /\ \A j \in 1..(i - 1) : functions[j].name # options.v

\* a pre-flight entry point threw MaximumConcurrencyError and nothing was asked
\* of the provider
ThrewBeforeAnyRequest(ep) ==
  /\ call.ep # ep
  /\ requests = <<>>
  /\ Len(log) >= 1 =>
       /\ Len(log) = 1
       /\ log[1].ep = ep
       /\ log[1].threw
       /\ log[1].error.name = "MaximumConcurrencyError"
       /\ lambda.configs = log[1].before

\* C4: when validation fails, validateConcurrency (any failing function) and
\* validateConcurrencyForFunction (the selected function) throw
\* MaximumConcurrencyError before any mutation: no delete or put request is
\* issued and the provisioned records stay as they were.
C4_ValidationFailsBeforeMutation ==
  /\ (host.command \in {"deploy", "validate"} /\ FailingFunctions # {})
       => ThrewBeforeAnyRequest("validateConcurrency")
  /\ (host.command = "deployFunction" /\ SelectedFails)
       => ThrewBeforeAnyRequest("validateConcurrencyForFunction")

C4_Witness ==
  /\ Len(log) = 1
  /\ log[1].ep = "validateConcurrency"
  /\ log[1].threw
  /\ log[1].error.name = "MaximumConcurrencyError"
  /\ lambda.configs # {}
  /\ lambda.configs = log[1].before

PreFlight == {"validateConcurrency", "validateConcurrencyForFunction"}

C6_ErrorNamesEveryFailingFunction ==
  (Len(log) >= 1 /\ log[1].ep = "validateConcurrency" /\ log[1].threw) =>
    LET messages == log[1].error.messages
    IN /\ Len(messages) = Cardinality(FailingFunctions)
       /\ {messages[k].v.functionName : k \in DOMAIN messages}
            = {_getFunctionName(functions[i].name) : i \in FailingFunctions}
       /\ \A k \in DOMAIN messages :
            GreaterThan(messages[k].v.provisioned, messages[k].v.maxRecommended)

C6_Witness ==
  /\ Len(log) = 1
  /\ log[1].ep = "validateConcurrency"
  /\ log[1].threw
  /\ Len(log[1].error.messages) = 2

\* the version reference declared for the function of this full name
DeclaredVersion(functionName) ==
  LET i == CHOOSE j \in DOMAIN functions : _getFunctionName(functions[j].name) = functionName
  IN _normalizeConfig(functions[i].config).version

\* a version reference that names a version: a string other than 'latest'
NamesVersion(version) == version.t = "str" /\ version.v # latest

\* the tasks that have started, whose function carries its full name
StartedTasks == {i \in DOMAIN tasks : tasks[i].pc # "queued"}

AfterResolution ==
  {"listProvisionedConcurrencyConfigs", "putProvisionedConcurrencyConfig",
   "getProvisionedConcurrencyConfig", "done"}

\* C11: a version reference that is a string other than 'latest' is used verbatim
\* as the Qualifier of the put request and no listVersionsByFunction request is
\* issued for the function; a reference that is null, absent or 'latest' is
\* resolved through listVersionsByFunction, to a numbered version the provider
\* lists.
C11_NamedVersionVerbatim ==
  /\ \A i \in StartedTasks :
       LET declared == DeclaredVersion(tasks[i].func.name)
       IN IF NamesVersion(declared)
          THEN /\ tasks[i].pc # "listVersionsByFunction"
               /\ tasks[i].func.config.version = declared
          ELSE tasks[i].pc \in AfterResolution =>
                 /\ tasks[i].func.config.version.t = "str"
                 /\ tasks[i].func.config.version.v \in NumberedVersions(tasks[i].func.name)
  /\ (Validating /\ call.pc = "listVersionsByFunction")
       => ~ NamesVersion(DeclaredVersion(Head(call.todo).name))
  /\ \A k \in DOMAIN requests :
       requests[k].op = "putProvisionedConcurrencyConfig" =>
         LET declared == DeclaredVersion(requests[k].FunctionName)
         IN IF NamesVersion(declared)
            THEN requests[k].Qualifier = declared.v
            ELSE requests[k].Qualifier \in NumberedVersions(requests[k].FunctionName)

C11_Witness ==
  \E k \in DOMAIN requests :
    /\ requests[k].op = "putProvisionedConcurrencyConfig"
    /\ requests[k].ok
    /\ DeclaredVersion(requests[k].FunctionName) = Str(<<"1">>)
    /\ requests[k].Qualifier = <<"1">>
    /\ Len(lambda.versions[requests[k].FunctionName]) > 2

\* C12: for every function, every delete request that removes provisioned
\* concurrency from a previous version has completed before the put request for
\* the function's target version is issued: no delete of a function follows a put
\* of it, and none is in flight while a task is about to put.
C12_DeletesBeforePut ==
  /\ \A k \in DOMAIN requests : \A l \in DOMAIN requests :
       (/\ k < l
        /\ requests[k].op = "putProvisionedConcurrencyConfig"
        /\ requests[k].FunctionName = requests[l].FunctionName)
       => requests[l].op # "deleteProvisionedConcurrencyConfig"
  /\ \A i \in StartedTasks :
       tasks[i].pc = "putProvisionedConcurrencyConfig"
         => call.pc # "deleteProvisionedConcurrencyConfig"

C12_Witness ==
  \E k \in DOMAIN requests : \E l \in DOMAIN requests :
    /\ k < l
    /\ requests[k].op = "deleteProvisionedConcurrencyConfig"
    /\ requests[k].ok
    /\ requests[l].op = "putProvisionedConcurrencyConfig"
    /\ requests[l].ok
    /\ requests[k].FunctionName = requests[l].FunctionName
    /\ requests[k].Qualifier # requests[l].Qualifier

\* C13: each task of setProvisionedConcurrency resolves the version, then deletes
\* the provisioned concurrency of every other version that holds it, then puts,
\* then waits: when the task has put on its target version, a delete request of
\* the task precedes the put for every other version of the function that holds
\* a config.
C13_TaskDeletesOthersThenPuts ==
  \A l \in DOMAIN requests :
    (/\ requests[l].ep = "setProvisionedConcurrency"
     /\ requests[l].op = "putProvisionedConcurrencyConfig")
    => \A c \in ConfigsOf(requests[l].FunctionName) :
         c.Qualifier # requests[l].Qualifier =>
           \E k \in 1..(l - 1) :
             /\ requests[k].ep = "setProvisionedConcurrency"
             /\ requests[k].op = "deleteProvisionedConcurrencyConfig"
             /\ requests[k].FunctionName = c.FunctionName
             /\ requests[k].Qualifier = c.Qualifier

Reconciling(pc) ==
  /\ Validating
  /\ call.pc = pc
  /\ Head(call.todo).config.provisioned.t = "num"
  /\ Head(call.todo).config.provisioned.v > 0

\* the versions, other than the target, on which the function cleaned up holds a
\* provisioned config
HeldByOthers ==
  {c.Qualifier : c \in ConfigsOf(Head(call.todo).name)} \ {call.version.v}

\* the deletes left to issue are for versions other than the target that hold a
\* config, each once, and none has been asked for before
C15_Pending ==
  Reconciling("deleteProvisionedConcurrencyConfig") =>
    /\ \A k \in DOMAIN call.pending :
         /\ call.pending[k] # call.version
         /\ HasConfig(Head(call.todo).name, call.pending[k].v)
         /\ \A l \in DOMAIN call.pending : call.pending[l] = call.pending[k] => l = k
         /\ \A r \in DOMAIN requests :
              ~ (/\ requests[r].ep = call.ep
                 /\ requests[r].FunctionName = Head(call.todo).name
                 /\ requests[r].Qualifier = call.pending[k].v)
    /\ call.pending # <<>>

\* once the configs are listed, a delete is due for every version but the target
C15_Listed ==
  (Reconciling("listProvisionedConcurrencyConfigs")
     /\ call'.pc = "deleteProvisionedConcurrencyConfig")
  => /\ {call'.pending[k].v : k \in DOMAIN call'.pending} = HeldByOthers
     /\ Len(call'.pending) = Cardinality(HeldByOthers)

\* each delete is issued for the next version due; when it succeeds the loop goes
\* on to the one after it
C15_Deleted ==
  Reconciling("deleteProvisionedConcurrencyConfig") =>
    /\ Len(requests') = Len(requests) + 1
    /\ requests'[Len(requests')].op = "deleteProvisionedConcurrencyConfig"
    /\ requests'[Len(requests')].FunctionName = Head(call.todo).name
    /\ requests'[Len(requests')].Qualifier = Head(call.pending).v
    /\ (requests'[Len(requests')].ok /\ Len(call.pending) > 1) =>
         /\ call'.pc = "deleteProvisionedConcurrencyConfig"
         /\ call'.pending = Tail(call.pending)
         /\ call'.todo = call.todo

\* C15: the cleanup of one function against its target version T, as the
\* validation entry points run it for a function with a capacity > 0, issues
\* exactly one delete for each listed provisioned config whose version differs
\* from T and no delete for T: with configs on versions 1 and 2 and T = 3, deletes
\* are issued for 1 and for 2 (the loop going on after each delete that succeeds).
C15_OneDeletePerOtherVersion ==
  /\ [] C15_Pending
  /\ [][C15_Listed /\ C15_Deleted]_vars

C15_Witness ==
  /\ Len(log) >= 1
  /\ log[1].ep \in PreFlight
  /\ ~ log[1].threw
  /\ \E i \in DOMAIN functions :
       /\ Desired(i) > 0
       /\ _normalizeConfig(functions[i].config).version = Str(DecimalString(MaxVersions + 1))
       /\ \E k \in DOMAIN requests : \E l \in DOMAIN requests :
            /\ k < l
            /\ requests[k].ep = log[1].ep /\ requests[l].ep = log[1].ep
            /\ requests[k].ok /\ requests[l].ok
            /\ requests[k].FunctionName = _getFunctionName(functions[i].name)
            /\ requests[l].FunctionName = _getFunctionName(functions[i].name)
            /\ requests[k].Qualifier = <<"1">>
            /\ requests[l].Qualifier = <<"2">>
       /\ ConfigsOf(_getFunctionName(functions[i].name)) = {}

\* C16: no entry point ever issues a put request for a function whose name
\* contains 'warmUpPlugin', whatever capacity it declares: neither
\* setProvisionedConcurrency nor setProvisionedConcurrencyForFunction.
C16_NoPutForWarmUpPlugin ==
  \A k \in DOMAIN requests :
    requests[k].op = "putProvisionedConcurrencyConfig"
      => ~ Includes(requests[k].FunctionName, warmUpPlugin)

\* C17: functions whose name contains 'warmUpPlugin' are still cleaned up: once a
\* run has returned, no version of such a function other than its target holds
\* provisioned concurrency, and none at all when it declares no capacity.
C17_WarmUpPluginCleanedUp ==
  DeployReturned =>
    \A i \in DOMAIN functions :
      Includes(functions[i].name, warmUpPlugin) =>
        \A c \in ConfigsOf(_getFunctionName(functions[i].name)) :
          Desired(i) > 0 /\ c.Qualifier \in TargetVersions(i)

\* the declared functions that are not excluded by name
Submitted == {i \in DOMAIN functions : ~ Includes(functions[i].name, warmUpPlugin)}

\* the tasks of function i: before it starts a task carries the declared name,
\* afterwards the full one
TasksFor(i) ==
  {t \in DOMAIN tasks :
     tasks[t].func.name \in {functions[i].name, _getFunctionName(functions[i].name)}}

\* one task for every function that is not excluded, and never more started and
\* unfinished tasks than CPUs
C18_Pool ==
  /\ (host.command = "deploy" /\ (call.ep = "setProvisionedConcurrency" \/ Len(log) = 2)) =>
       /\ Len(tasks) = Cardinality(Submitted)
       /\ \A i \in Submitted : Cardinality(TasksFor(i)) = 1
  /\ Cardinality(Running(tasks)) <= cpuCount

\* a task leaves the queue only in a step in which a running task finishes
C18_Dequeued ==
  \A t \in DOMAIN tasks :
    (tasks[t].pc = "queued" /\ tasks'[t].pc # "queued") =>
      /\ IsRunning(tasks'[t])
      /\ \E u \in DOMAIN tasks : IsRunning(tasks[u]) /\ ~ IsRunning(tasks'[u])

\* C18: during setProvisionedConcurrency exactly one task is submitted for every
\* declared function that is not excluded by name; at every moment the number of
\* tasks started and not yet finished is at most the CPU count; a queued task
\* starts only when a running one finishes.
C18_OneTaskEachPoolBounded ==
  /\ [] C18_Pool
  /\ [][C18_Dequeued]_vars

C18_Witness ==
  /\ cpuCount = 1
  /\ Len(tasks) = 2
  /\ tasks[1].pc = "done"
  /\ IsRunning(tasks[2])
  /\ call.ep = "setProvisionedConcurrency"

Ended(task) == task.pc \in {"done", "failed"}

\* while a task has failed and another is still queued, the pool is full: the
\* queue goes on being served
C19_QueueServed ==
  (/\ \E t \in DOMAIN tasks : tasks[t].pc = "failed"
   /\ \E t \in DOMAIN tasks : tasks[t].pc = "queued")
  => Cardinality(Running(tasks)) = cpuCount

\* the step in which a task fails leaves every other task as it is, or starts it
C19_SiblingsKept ==
  \A u \in DOMAIN tasks :
    (tasks[u].pc # "failed" /\ tasks'[u].pc = "failed") =>
      \A t \in DOMAIN tasks \ {u} :
        \/ tasks'[t] = tasks[t]
        \/ tasks[t].pc = "queued" /\ tasks'[t] = Started(tasks[t])

\* a task that has ended stays ended, and no step ends a task other than the one
\* that takes it
C19_NoneCancelled ==
  \A t \in DOMAIN tasks :
    /\ Ended(tasks[t]) => tasks'[t] = tasks[t]
    /\ (~ Ended(tasks[t]) /\ Ended(tasks'[t])) =>
         \A u \in DOMAIN tasks \ {t} : Ended(tasks'[u]) => Ended(tasks[u])

\* C19: in setProvisionedConcurrency the failure of one task cancels no sibling:
\* every other submitted task, running or still queued, is started and runs to
\* its own completion or failure, under every interleaving.
C19_FailureCancelsNoSibling ==
  /\ [] C19_QueueServed
  /\ [][C19_SiblingsKept /\ C19_NoneCancelled]_vars
  /\ (\E t \in DOMAIN tasks : tasks[t].pc = "failed")
       ~> (\A t \in DOMAIN tasks : Ended(tasks[t]))

C19_Witness ==
  /\ Len(tasks) = 2
  /\ tasks[1].pc = "failed"
  /\ tasks[2].pc = "done"
  /\ cpuCount = 1
  /\ Len(log) = 2
  /\ log[2].ep = "setProvisionedConcurrency"
  /\ log[2].threw
  /\ \E k \in DOMAIN requests :
       /\ requests[k].op = "putProvisionedConcurrencyConfig"
       /\ requests[k].ok
       /\ requests[k].FunctionName = tasks[2].func.name

ApplyEntryPoints == {"setProvisionedConcurrency", "setProvisionedConcurrencyForFunction"}

\* while a task has failed the entry point that awaited it has thrown, with the
\* error of a failed task and the error message logged; the completion message
\* is logged only when every task is done
C20_Failed ==
  /\ (\E t \in DOMAIN tasks : tasks[t].pc = "failed") =>
       /\ ~ Applying
       /\ Len(log) = 2
       /\ log[2].ep = TaskOwner
       /\ log[2].threw
       /\ log[2].said = Caught(IF TaskOwner = "setProvisionedConcurrency"
                               THEN "Promise.all" ELSE "_processFunction")
       /\ \E t \in DOMAIN tasks : tasks[t].pc = "failed" /\ tasks[t].error = log[2].error
  /\ \A k \in DOMAIN log :
       (/\ log[k].ep \in ApplyEntryPoints
        /\ log[k].said \in {Completed("Promise.all"), Completed("_processFunction")})
       => /\ ~ log[k].threw
          /\ \A t \in DOMAIN tasks : tasks[t].pc = "done"

\* the step in which the first task fails is the step in which the entry point
\* logs the error and throws it
C20_Rethrown ==
  \A u \in DOMAIN tasks :
    (Applying /\ tasks[u].pc # "failed" /\ tasks'[u].pc = "failed") =>
      /\ call' = Idle
      /\ host'.aborted
      /\ log' = Append(log, [ep |-> call.ep, threw |-> TRUE, error |-> tasks'[u].error,
                             said |-> Caught(call.pc), before |-> call.before])
      /\ tasks'[u].error # NoError

\* C20: if at least one task fails, setProvisionedConcurrency ends in failure: it
\* logs 'Error setting provisioned concurrency: <message>', rejects with the
\* task's error and never logs the completion message; likewise
\* setProvisionedConcurrencyForFunction throws the error of its single task
\* again.
C20_TaskFailureFailsEntryPoint ==
  /\ [] C20_Failed
  /\ [][C20_Rethrown]_vars

C20_Witness ==
  /\ Len(tasks) = 2
  /\ tasks[1].pc = "done"
  /\ tasks[2].pc = "failed"
  /\ tasks[2].error = TimeoutError
  /\ Len(log) = 2
  /\ log[2].ep = "setProvisionedConcurrency"
  /\ log[2].threw
  /\ log[2].error = TimeoutError
  /\ log[2].said = "Error setting provisioned concurrency: "

Waiting(task) == task.pc = "getProvisionedConcurrencyConfig"

\* `attempt` counts the polls of the wait that were answered so far
C21_Counted ==
  \A i \in DOMAIN tasks :
    /\ tasks[i].attempt < maxAttempts
    /\ tasks[i].attempt > 0 => Waiting(tasks[i])
    /\ tasks[i].error = TimeoutError =>
         /\ tasks[i].pc = "failed"
         /\ tasks[i].polled \in {"IN_PROGRESS", "FAILED"}
         /\ Len(log) = 2 /\ log[2].threw

\* every poll is counted or is the last, and a wait is left only by ending the
\* task; the 30th poll is the last, and when it did not report READY either the
\* task fails with the timeout error, which the entry point still awaiting it
\* throws
C21_Polled ==
  \A i \in DOMAIN tasks :
    (Waiting(tasks[i]) /\ tasks'[i] # tasks[i]) =>
      /\ \/ Waiting(tasks'[i]) /\ tasks'[i].attempt = tasks[i].attempt + 1
         \/ Ended(tasks'[i])
      /\ tasks[i].attempt = maxAttempts - 1 => Ended(tasks'[i])
      /\ (Ended(tasks'[i]) /\ tasks'[i].polled \in {"IN_PROGRESS", "FAILED"}) =>
           /\ tasks[i].attempt = maxAttempts - 1
           /\ tasks'[i].pc = "failed"
           /\ tasks'[i].error = TimeoutError
           /\ Applying =>
                /\ host'.aborted
                /\ log' = Append(log, [ep |-> call.ep, threw |-> TRUE, error |-> TimeoutError,
                                       said |-> Caught(call.pc), before |-> call.before])

\* C21: _waitForProvisionedConcurrencyReady always terminates: it issues at most
\* 30 getProvisionedConcurrencyConfig polls for the function and version it waits
\* on, and if none of the 30 reports READY it ends with a timeout error that
\* fails the function's task instead of being ignored. (Every wait is over in
\* the end: from some point on no task is waiting.)
C21_WaitTerminatesWithin30Polls ==
  /\ [] C21_Counted
  /\ [][C21_Polled]_vars
  /\ <>[] (\A i \in DOMAIN tasks : ~ Waiting(tasks[i]))

C21_Witness ==
  /\ Len(tasks) = 1
  /\ tasks[1].pc = "failed"
  /\ tasks[1].error = TimeoutError
  /\ tasks[1].polled = "IN_PROGRESS"
  /\ Len(log) = 2
  /\ log[2].threw
  /\ log[2].error = TimeoutError

\* the put requests of the apply entry point that succeeded for the target of
\* task i
PutsFor(i) ==
  {k \in DOMAIN requests :
     /\ requests[k].op = "putProvisionedConcurrencyConfig"
     /\ requests[k].ep = TaskOwner
     /\ requests[k].ok
     /\ requests[k].FunctionName = tasks[i].func.name
     /\ requests[k].Qualifier = tasks[i].func.config.version.v
     /\ requests[k].count = tasks[i].func.config.provisioned.v}

\* a task with a capacity that is done has put it, and the last poll of its wait
\* reported READY
C22_Done ==
  \A i \in DOMAIN tasks :
    (tasks[i].pc = "done" /\ HasCapacity(tasks[i].func.config)) =>
      /\ tasks[i].polled = "READY"
      /\ PutsFor(i) # {}

\* a wait is entered by the put that succeeded only; it returns at a poll the
\* provider answers READY, which is the first such answer of the wait; a task
\* that is done takes no further step
C22_Returned ==
  \A i \in DOMAIN tasks :
    /\ (~ Waiting(tasks[i]) /\ Waiting(tasks'[i])) =>
         /\ tasks[i].pc = "putProvisionedConcurrencyConfig"
         /\ Len(requests') = Len(requests) + 1
         /\ requests'[Len(requests')].ok
         /\ requests'[Len(requests')].op = "putProvisionedConcurrencyConfig"
    /\ (tasks[i].pc # "done" /\ tasks'[i].pc = "done" /\ HasCapacity(tasks[i].func.config)) =>
         /\ Waiting(tasks[i])
         /\ tasks[i].polled # "READY"
         /\ \E c \in lambda.configs :
              /\ c.FunctionName = tasks[i].func.name
              /\ c.Qualifier = tasks[i].func.config.version.v
              /\ c.status = "READY"
    /\ tasks[i].pc = "done" => tasks'[i] = tasks[i]

\* C22: _waitForProvisionedConcurrencyReady returns successfully only if one of
\* its polls observed Status == 'READY'; it returns at the first such poll
\* without issuing further polls; and so a task with a desired capacity above 0
\* completes successfully only after its put request succeeded and a later poll
\* reported READY.
C22_SuccessOnlyAtReady ==
  /\ [] C22_Done
  /\ [][C22_Returned]_vars

C22_Witness ==
  /\ Len(tasks) = 1
  /\ tasks[1].pc = "done"
  /\ tasks[1].polled = "READY"
  /\ HasCapacity(tasks[1].func.config)
  /\ PutsFor(1) # {}
  /\ Len(log) = 2
  /\ log[2].said = Completed("Promise.all")

\* a task whose poll raised an error has failed with that error
C23_Aborted ==
  \A i \in DOMAIN tasks :
    tasks[i].polled = Failure.message =>
      /\ tasks[i].pc = "failed"
      /\ tasks[i].error = ProviderError
      /\ Len(log) = 2 /\ log[2].threw

\* the poll that raises an error ends the task at that step, whichever attempt
\* it was, and the entry point still awaiting the task throws the error; a task
\* that has failed issues no further request
C23_NotRetried ==
  \A i \in DOMAIN tasks :
    /\ (tasks[i].polled # Failure.message /\ tasks'[i].polled = Failure.message) =>
         /\ Waiting(tasks[i])
         /\ tasks'[i].pc = "failed"
         /\ tasks'[i].error = ProviderError
         /\ requests' = requests
         /\ Applying =>
              /\ host'.aborted
              /\ log' = Append(log, [ep |-> call.ep, threw |-> TRUE, error |-> ProviderError,
                                     said |-> Caught(call.pc), before |-> call.before])
    /\ tasks[i].pc = "failed" =>
         /\ tasks'[i] = tasks[i]
         /\ requests' # requests =>
              requests'[Len(requests')].FunctionName # tasks[i].func.name

\* C23: if a readiness poll raises a transport/API error, the wait aborts
\* immediately with that error: no further poll is issued for that function and
\* version, the poll is not retried, and the error propagates as the failure of
\* the task.
C23_PollErrorAbortsWait ==
  /\ [] C23_Aborted
  /\ [][C23_NotRetried]_vars

C23_Witness ==
  /\ Len(tasks) = 1
  /\ tasks[1].pc = "failed"
  /\ tasks[1].polled = Failure.message
  /\ tasks[1].error = ProviderError
  /\ \E k \in DOMAIN requests :
       requests[k].op = "putProvisionedConcurrencyConfig" /\ requests[k].ok
  /\ Len(log) = 2
  /\ log[2].threw
  /\ log[2].error = ProviderError

\* while an apply entry point that created an indicator awaits its tasks,
\* one indicator is displayed: the one state.progress holds
C24_Displayed ==
  (Applying /\ state.progress # "none") =>
    (state.progress = "indicator" /\ state.displayed = 1)

\* the step in which such an entry point throws leaves no indicator displayed,
\* whichever request of the task failed
C24_Removed ==
  (/\ Applying
   /\ state.progress # "none"
   /\ Len(log') = Len(log) + 1
   /\ log'[Len(log')].threw)
  => /\ state'.displayed = 0
     /\ state'.progress = "noop"
     /\ \E i \in DOMAIN tasks :
          /\ tasks[i].pc \in {"listVersionsByFunction", "putProvisionedConcurrencyConfig",
                              "getProvisionedConcurrencyConfig"}
          /\ tasks'[i].pc = "failed"

\* C24: when setProvisionedConcurrency or setProvisionedConcurrencyForFunction
\* fails after having created a progress indicator, the indicator has been
\* removed before the error reaches the caller, whichever stage failed (version
\* resolution, put, or readiness wait).
C24_IndicatorRemovedOnFailure ==
  /\ [] C24_Displayed
  /\ [][C24_Removed]_vars

C24_Witness ==
  /\ Len(tasks) = 1
  /\ tasks[1].pc = "failed"
  /\ tasks[1].error = TimeoutError
  /\ Len(log) = 2
  /\ log[2].ep \in ApplyEntryPoints
  /\ log[2].threw
  /\ state.totalCount = 1
  /\ state.progress = "noop"
  /\ state.displayed = 0

\* both deployments are over and none of their entry points threw
RanTwice ==
  /\ host.command = "redeploy"
  /\ Len(log) = 4
  /\ \A k \in DOMAIN log : ~ log[k].threw

\* the configs the second deployment leaves are those the first one left, which
\* are those the second one found
C25_SameEndState == RanTwice => lambda.configs = log[3].before

\* the second deployment deletes the config of no version that is alone in
\* holding one for its function
C25_SoleHolderKept ==
  (/\ host.command = "redeploy"
   /\ Len(log) >= 2
   /\ Len(requests') = Len(requests) + 1
   /\ requests'[Len(requests')].op = "deleteProvisionedConcurrencyConfig")
  => \E c \in ConfigsOf(requests'[Len(requests')].FunctionName) :
       c.Qualifier # requests'[Len(requests')].Qualifier

\* C25: idempotence: running the reconciliation (validateConcurrency then
\* setProvisionedConcurrency) twice in succession with an unchanged manifest, no
\* external drift and no provider failure leaves the provider's capacity records
\* in the same end state after the second run as after the first, and the second
\* run issues no delete request against the version that is already the sole
\* holder of capacity.
C25_ReconciliationIdempotent ==
  /\ [] C25_SameEndState
  /\ [][C25_SoleHolderKept]_vars

\* setProvisionedConcurrencyForFunction is at this request for a declared
\* function that has no capacity to set
Clearing(pc) ==
  /\ call.ep = "setProvisionedConcurrencyForFunction"
  /\ call.pc = pc
  /\ call.todo # <<>>

\* the function named on the command line is declared without a capacity
NamedWithoutCapacity ==
  /\ host.command = "deployFunction"
  /\ ~ Falsy(options)
  /\ \E i \in DOMAIN functions : functions[i].name = options.v
  /\ Falsy(FindFunction(_getConfiguredFunctions, options.v).config.provisioned)

\* for such a function the entry point puts nothing, starts no task and creates
\* no indicator; its deletes are for versions that hold a config; and when it has
\* issued deletes and returned, no version of the function holds a config
C26_OnlyDeletes ==
  NamedWithoutCapacity =>
    /\ tasks = <<>>
    /\ state = NoState
    /\ \A k \in DOMAIN requests :
         requests[k].ep = "setProvisionedConcurrencyForFunction" =>
           /\ requests[k].op = "deleteProvisionedConcurrencyConfig"
           /\ requests[k].FunctionName = _getFunctionName(options.v)
    /\ Clearing("deleteProvisionedConcurrencyConfig") =>
         /\ call.pending # <<>>
         /\ \A k \in DOMAIN call.pending :
              HasConfig(Head(call.todo).name, call.pending[k].v)
    /\ (/\ Len(log) = 2
        /\ ~ log[2].threw
        /\ \E k \in DOMAIN requests : requests[k].ep = log[2].ep)
       => ConfigsOf(_getFunctionName(options.v)) = {}

\* it begins with the list request for the function; once the configs are
\* listed, a delete is due for every version that holds one
C26_Listed ==
  /\ (/\ NamedWithoutCapacity
      /\ Stage = "after:deploy:function:deploy"
      /\ call = Idle
      /\ call' # call)
     => Clearing("listProvisionedConcurrencyConfigs")'
  /\ (Clearing("listProvisionedConcurrencyConfigs")
        /\ call'.pc = "deleteProvisionedConcurrencyConfig")
     => /\ {call'.pending[k].v : k \in DOMAIN call'.pending}
             = {c.Qualifier : c \in ConfigsOf(Head(call.todo).name)}
        /\ Len(call'.pending) = Cardinality(ConfigsOf(Head(call.todo).name))

\* each delete is issued for the next version due; when it succeeds the loop
\* goes on to the one after it, and returns after the last
C26_Deleted ==
  Clearing("deleteProvisionedConcurrencyConfig") =>
    /\ Len(requests') = Len(requests) + 1
    /\ requests'[Len(requests')].op = "deleteProvisionedConcurrencyConfig"
    /\ requests'[Len(requests')].ep = call.ep
    /\ requests'[Len(requests')].FunctionName = Head(call.todo).name
    /\ requests'[Len(requests')].Qualifier = Head(call.pending).v
    /\ requests'[Len(requests')].ok =>
         IF Len(call.pending) > 1
         THEN /\ call'.pc = "deleteProvisionedConcurrencyConfig"
              /\ call'.pending = Tail(call.pending)
         ELSE /\ call' = Idle
              /\ ~ log'[Len(log')].threw

\* C26: setProvisionedConcurrencyForFunction, invoked for a declared function
\* that has no desired capacity (null, absent or 0), issues a delete for every
\* version of that function that the provider lists as holding provisioned
\* concurrency (the loop going on after each delete that succeeds), and issues no
\* put request and creates no progress indicator.
C26_ClearsEveryListedVersion ==
  /\ [] C26_OnlyDeletes
  /\ [][C26_Listed /\ C26_Deleted]_vars

C26_Witness ==
  /\ NamedWithoutCapacity
  /\ Len(log) = 2
  /\ log[2].ep = "setProvisionedConcurrencyForFunction"
  /\ ~ log[2].threw
  /\ \E k \in DOMAIN requests : \E l \in DOMAIN requests :
       /\ k < l
       /\ requests[k].ep = log[2].ep /\ requests[l].ep = log[2].ep
       /\ requests[k].ok /\ requests[l].ok
       /\ requests[k].Qualifier = <<"1">>
       /\ requests[l].Qualifier = <<"2">>
  /\ ConfigsOf(_getFunctionName(options.v)) = {}
  /\ state = NoState

\* a config listed under the ARN of its function version
WellFormed(c) == c.FunctionArn = Str(FunctionArn(c.FunctionName, c.Qualifier))

\* the versions whose config the cleanup of the function at hand is to delete
\* once it has the list: those listed under a well-formed ARN, the target apart
\* when the function declares a capacity
DueFor(func, version) ==
  {c.Qualifier : c \in {d \in ConfigsOf(func.name) : WellFormed(d)}}
    \ (IF IsEmptyConfiguration(func.config) THEN {} ELSE {version.v})

\* no step deletes a config listed under a malformed identifier, nor asks for it
C29_Skipped ==
  /\ {c \in lambda.configs : ~ WellFormed(c)} \subseteq lambda.configs'
  /\ requests' # requests =>
       \E c \in lambda.configs :
         /\ WellFormed(c)
         /\ c.FunctionName = requests'[Len(requests')].FunctionName
         /\ c.Qualifier = requests'[Len(requests')].Qualifier

\* the step that takes the list raises nothing, and the deletes due after it are
\* those of every well-formed record but the target; each delete that succeeds is
\* followed by the next
C29_GoesOn ==
  /\ Len(log') > Len(log) =>
       (log'[Len(log')].threw => log'[Len(log')].error.name = "MaximumConcurrencyError")
  /\ (Validating /\ call.pc = "listProvisionedConcurrencyConfigs"
        /\ call'.pc = "deleteProvisionedConcurrencyConfig")
     => /\ {call'.pending[k].v : k \in DOMAIN call'.pending}
             = DueFor(Head(call.todo), call.version)
        /\ Len(call'.pending) = Cardinality(DueFor(Head(call.todo), call.version))
  /\ (Validating /\ call.pc = "deleteProvisionedConcurrencyConfig"
        /\ Len(call.pending) > 1 /\ requests'[Len(requests')].ok)
     => call'.pending = Tail(call.pending)

\* with a provider that fails no request, the cleanup that returned has left the
\* malformed records, the target's, and no other
C29_Cleaned ==
  (/\ host.command = "validate"
   /\ ~ lambda.faulty
   /\ Len(log) = 1
   /\ ~ log[1].threw
   /\ ~ Includes(functions[1].name, warmUpPlugin))
  => \A c \in lambda.configs :
       \/ ~ WellFormed(c)
       \/ Desired(1) > 0 /\ c.Qualifier \in TargetVersions(1)

\* C29: during cleanup, a provisioned record whose resource identifier is
\* malformed (empty, or fewer than 8 colon-delimited segments) is skipped without
\* raising and without issuing a delete for it, and cleanup goes on to issue
\* deletes for every remaining well-formed non-target record of the list.
C29_MalformedRecordSkipped ==
  /\ [] C29_Cleaned
  /\ [][C29_Skipped /\ C29_GoesOn]_vars

C29_Witness ==
  /\ host.command = "validate"
  /\ Len(log) = 1
  /\ ~ log[1].threw
  /\ Desired(1) > 0
  /\ Len(requests) = 1
  /\ requests[1].ok
  /\ requests[1].Qualifier = <<"2">>
  /\ \E c \in lambda.configs :
       /\ c.Qualifier = <<"1">>
       /\ c.FunctionArn \in MalformedArns(c.FunctionName) \ {Undefined, Str(<<>>)}
  /\ Cardinality(lambda.configs) = 1

\* whatever the list request is answered, the task neither fails nor deletes: it
\* goes on to its put when the function has a capacity to set, and is done
\* otherwise; the step after is the put request for the function
C30_TaskGoesOn ==
  \A i \in DOMAIN tasks :
    /\ (tasks[i].pc = "listProvisionedConcurrencyConfigs" /\ tasks'[i] # tasks[i])
       => /\ requests' = requests
          /\ lambda' = lambda
          /\ tasks'[i].error = NoError
          /\ tasks'[i].pc = IF GreaterThan(tasks[i].func.config.provisioned, 0)
                            THEN "putProvisionedConcurrencyConfig" ELSE "done"
          /\ Len(log') > Len(log) => ~ log'[Len(log')].threw
    /\ (tasks[i].pc = "putProvisionedConcurrencyConfig" /\ tasks'[i] # tasks[i])
       => /\ Len(requests') = Len(requests) + 1
          /\ requests'[Len(requests')].op = "putProvisionedConcurrencyConfig"
          /\ requests'[Len(requests')].FunctionName = tasks[i].func.name
          /\ requests'[Len(requests')].Qualifier = tasks[i].func.config.version.v

\* whatever the list request of a cleanup is answered, the step raises nothing
\* and issues no request; either deletes are due after it, or the cleanup has
\* left the function for the next one or has returned
C30_CleanupGoesOn ==
  (/\ call.pc = "listProvisionedConcurrencyConfigs"
   /\ call.todo # <<>>
   /\ call' # call)
  => /\ requests' = requests
     /\ lambda' = lambda
     /\ Len(log') > Len(log) => ~ log'[Len(log')].threw
     /\ \/ call'.pc = "deleteProvisionedConcurrencyConfig" /\ call'.todo = call.todo
        \/ call' = Idle
        \/ call'.ep = call.ep /\ Len(call'.todo) < Len(call.todo)

\* C30: a failure of the listProvisionedConcurrencyConfigs request is logged and
\* treated as an empty list of records: it never aborts the function's task, no
\* delete is issued for that function, and in setProvisionedConcurrency the task
\* still goes on to issue its put request when the desired capacity is above 0.
C30_ListFailureIsEmptyList == [][C30_TaskGoesOn /\ C30_CleanupGoesOn]_vars

\* a deploy of a function that had two numbered versions before it, whose
\* cleanup returned having deleted nothing although version 1 held a config that
\* was not the target's, which only a failed list allows, and whose task then
\* put the capacity
C30_Witness ==
  /\ host.command = "deploy"
  /\ Len(functions) = 1
  /\ ~ Includes(functions[1].name, warmUpPlugin)
  /\ Len(log) = 2
  /\ log[1].ep = "validateConcurrency" /\ ~ log[1].threw
  /\ log[2].ep = "setProvisionedConcurrency" /\ ~ log[2].threw
  /\ Len(requests) = 1
  /\ requests[1].op = "putProvisionedConcurrencyConfig"
  /\ requests[1].ok
  /\ requests[1].Qualifier # <<"1">>
  /\ Len(lambda.versions[requests[1].FunctionName]) >= 4
  /\ \E c \in log[1].before : c.Qualifier = <<"1">>
  /\ \E c \in lambda.configs : c.Qualifier = <<"1">>

\* the entry point that still awaits the tasks throws this error at this step
Reraised(error) ==
  Applying =>
    /\ host'.aborted
    /\ Len(log') = Len(log) + 1
    /\ log'[Len(log')].ep = call.ep
    /\ log'[Len(log')].threw
    /\ log'[Len(log')].error = error

\* a task that failed before any poll holds no config it put: none of its puts
\* succeeded, and after a failed resolution it issued no put at all
C31_Aborted ==
  \A i \in DOMAIN tasks :
    (tasks[i].pc = "failed" /\ tasks[i].polled = "none") =>
      /\ tasks[i].error \in {ProviderError, NoVersionFoundError}
      /\ \A k \in DOMAIN requests :
           (requests[k].ep = TaskOwner /\ requests[k].FunctionName = tasks[i].func.name)
             => ~ requests[k].ok
      /\ ~ NamesVersion(tasks[i].func.config.version) =>
           \A k \in DOMAIN requests :
             requests[k].ep = TaskOwner => requests[k].FunctionName # tasks[i].func.name

\* the version resolution that fails and the put that fails end the task at that
\* step with the provider's error, which the entry point throws; the resolution
\* issues nothing, and the task that failed stays as it is and issues nothing more
C31_Step ==
  \A i \in DOMAIN tasks :
    /\ (tasks[i].pc = "listVersionsByFunction" /\ tasks'[i] # tasks[i])
       => /\ requests' = requests
          /\ \/ /\ tasks'[i].pc = "listProvisionedConcurrencyConfigs"
                /\ NamesVersion(tasks'[i].func.config.version)
             \/ /\ tasks'[i].pc = "failed"
                /\ tasks'[i].func = tasks[i].func
                /\ tasks'[i].error \in {ProviderError, NoVersionFoundError}
                /\ Reraised(tasks'[i].error)
    /\ (tasks[i].pc = "putProvisionedConcurrencyConfig" /\ tasks'[i] # tasks[i]
          /\ ~ requests'[Len(requests')].ok)
       => /\ tasks'[i].pc = "failed"
          /\ tasks'[i].error = ProviderError
          /\ tasks'[i].polled = "none"
          /\ lambda' = lambda
          /\ Reraised(ProviderError)
    /\ (tasks[i].pc = "failed" /\ tasks[i].polled = "none")
       => /\ tasks'[i] = tasks[i]
          /\ requests' # requests =>
               requests'[Len(requests')].FunctionName # tasks[i].func.name

\* C31: in an apply task, a provider error during version resolution or during
\* the put request aborts that function's task and is re-raised to the caller:
\* after a failed version resolution no list, put or poll request is issued for
\* the function, and after a failed put no readiness poll is issued and the error
\* is logged with the function, version and requested capacity.
C31_ProviderErrorAbortsTask ==
  /\ [] C31_Aborted
  /\ [][C31_Step]_vars

\* two tasks of a pool of two: the first failed at its version resolution and
\* the entry point threw its error, the second then failed at its put
C31_Witness ==
  /\ Len(tasks) = 2
  /\ tasks[1].pc = "failed" /\ tasks[1].error = ProviderError
  /\ ~ NamesVersion(tasks[1].func.config.version)
  /\ tasks[2].pc = "failed" /\ tasks[2].error = ProviderError
  /\ tasks[2].polled = "none"
  /\ Len(requests) > 0
  /\ requests[Len(requests)].op = "putProvisionedConcurrencyConfig"
  /\ requests[Len(requests)].FunctionName = tasks[2].func.name
  /\ ~ requests[Len(requests)].ok
  /\ log[Len(log)].threw
  /\ log[Len(log)].error = ProviderError

\* the step in which a task of setProvisionedConcurrency ends, done or failed,
\* adds one to the completed counter and leaves the total as it was
C32_Counted ==
  \A i \in DOMAIN tasks :
    (/\ TaskOwner = "setProvisionedConcurrency"
     /\ ~ Ended(tasks[i])
     /\ Ended(tasks'[i]))
    => /\ state'.completedCount = state.completedCount + 1
       /\ state'.totalCount = state.totalCount

\* C32: in setProvisionedConcurrency, progress is reported after each task
\* completes, whether it succeeded or failed: after every task end the completed
\* counter is incremented by one and a progress message with the running
\* completed/total pair is rendered.
C32_ProgressAfterEachTask == [][C32_Counted]_vars

\* C33: once setProvisionedConcurrency has returned or thrown, no progress
\* indicator created by the run is still displayed and none is created
\* afterwards, under every interleaving of the pool's tasks, sibling tasks still
\* in flight when the first task failure makes the batch reject included.
C33_NoIndicatorAfterRun ==
  (\E k \in DOMAIN log : log[k].ep = "setProvisionedConcurrency")
    => /\ state.displayed = 0
       /\ state.progress # "indicator"

\* the run of setProvisionedConcurrency has begun: its state object exists or
\* the entry point has ended
RunOfAll ==
  /\ host.command = "deploy"
  /\ \/ call.ep = "setProvisionedConcurrency"
     \/ \E k \in DOMAIN log : log[k].ep = "setProvisionedConcurrency"

\* the counter is within its bounds and counts the tasks that are done
C34_Bounded ==
  RunOfAll =>
    /\ 0 <= state.completedCount
    /\ state.completedCount <= state.totalCount
    /\ state.completedCount = Cardinality({i \in DOMAIN tasks : tasks[i].pc = "done"})

\* the run that returned has counted every function
C34_Complete ==
  (\E k \in DOMAIN log : log[k].ep = "setProvisionedConcurrency" /\ ~ log[k].threw)
    => state.completedCount = state.totalCount

\* C34: in every state of a setProvisionedConcurrency run the progress counter
\* satisfies 0 <= completedCount <= totalCount and completedCount equals the
\* number of tasks that have finished successfully; when the run completes
\* successfully completedCount equals totalCount, for every declared set of
\* functions (sets with functions excluded by name convention included).
C34_CounterWithinTotal == C34_Bounded /\ C34_Complete

\* the cleanup of the many has returned
CleanedMany ==
  /\ host.command = "validate"
  /\ Len(log) = 1
  /\ ~ log[1].threw
  /\ \A k \in DOMAIN requests : requests[k].ok

\* C35: cleanup enforces the single-active-version invariant whatever the number
\* of historical versions: for any number of versions of a function holding
\* provisioned records, more than the 50 items requested in one
\* listProvisionedConcurrencyConfigs call included, a successful cleanup deletes
\* the record of every version other than the target.
C35_CleansAnyNumberOfVersions ==
  CleanedMany =>
    /\ Cardinality(lambda.configs) <= (IF Desired(1) > 0 THEN 1 ELSE 0)
    /\ NamesVersion(DeclaredVersion(_getFunctionName(functions[1].name))) =>
         \A c \in lambda.configs :
           c.Qualifier = DeclaredVersion(_getFunctionName(functions[1].name)).v

\* a delete request of a cleanup has just failed
DeleteFailed ==
  /\ Validating
  /\ call.pc = "deleteProvisionedConcurrencyConfig"
  /\ Len(requests') = Len(requests) + 1
  /\ ~ requests'[Len(requests')].ok

\* after it the cleanup raises nothing and reaches the functions that follow
C36_NextFunctions ==
  DeleteFailed =>
    /\ Len(log') > Len(log) => ~ log'[Len(log')].threw
    /\ \/ call'.todo = call.todo
       \/ call' = Idle /\ SkipWarmUp(Tail(call.todo)) = <<>>
       \/ /\ call'.ep = call.ep
          /\ call'.todo # <<>>
          /\ Len(call'.todo) < Len(call.todo)
          /\ call'.pc \in {"listVersionsByFunction", "listProvisionedConcurrencyConfigs"}

\* after it the deletes still due for the function are issued
C36_NextVersions ==
  (DeleteFailed /\ Len(call.pending) > 1) =>
    /\ call'.pc = "deleteProvisionedConcurrencyConfig"
    /\ call'.todo = call.todo
    /\ call'.pending = Tail(call.pending)

\* C36: during cleanup of one function, a failed delete request for one version
\* does not prevent delete requests from being issued for the remaining
\* non-target versions of the same function, nor cleanup of the functions that
\* follow it in the batch.
C36_FailedDeleteDoesNotStopCleanup == [][C36_NextVersions /\ C36_NextFunctions]_vars

\* C37: for a function whose desired capacity is 0 or null, cleanup does not
\* depend on version resolution: validateConcurrency issues a delete for every
\* existing provisioned record of the function even when its version reference is
\* absent or 'latest' and listVersionsByFunction fails or returns no numbered
\* version. Whatever that request is answered while the function has records,
\* the cleanup goes on to list them.
C37_EmptyCleanupIgnoresResolution ==
  [][(/\ call.ep = "validateConcurrency"
      /\ call.pc = "listVersionsByFunction"
      /\ IsEmptyConfiguration(Head(call.todo).config)
      /\ ConfigsOf(Head(call.todo).name) # {}
      /\ call' # call)
     => /\ call'.pc = "listProvisionedConcurrencyConfigs"
        /\ call'.todo = call.todo]_vars

\* C38: a readiness poll that reports status FAILED is terminal: the wait ends
\* in failure at that poll, no further poll is issued for that function and
\* version, and the wait can never return success after having observed FAILED.
C38_FailedStatusIsTerminal ==
  [][\A i \in DOMAIN tasks :
       (/\ Waiting(tasks[i])
        /\ tasks'[i] # tasks[i]
        /\ tasks'[i].polled = "FAILED")
       => tasks'[i].pc = "failed"]_vars

\* the ceiling declared for the function of this full name, if any
Ceiling(functionName) ==
  LET i == CHOOSE j \in DOMAIN functions : _getFunctionName(functions[j].name) = functionName
  IN _normalizeConfig(functions[i].config).reserved

\* floor(ceiling * margin / 100), the margin being maxPercent or 80
Within(count, ceiling) ==
  count <= (ceiling * _getProvisionedConcurrencyPercent.hundredths) \div 100

\* the put requests of these entry points stay within the margin of the ceiling
PutsWithin(eps) ==
  \A k \in DOMAIN requests :
    (/\ requests[k].op = "putProvisionedConcurrencyConfig"
     /\ requests[k].ep \in eps
     /\ ~ IsNullish(Ceiling(requests[k].FunctionName)))
    => Within(requests[k].count, Ceiling(requests[k].FunctionName).v)

\* C39 as stated: for a function with a known ceiling, no apply entry point ever
\* issues a put-capacity request whose count exceeds floor(ceiling * margin / 100):
\* this holds for setProvisionedConcurrency and for
\* setProvisionedConcurrencyForFunction in every sequence of entry-point
\* invocations, also when the host invokes them without a preceding successful
\* validation.
C39_PutWithinMargin == PutsWithin({"setProvisionedConcurrency", "setProvisionedConcurrencyForFunction"})

\* validateConcurrency was invoked before and returned
ValidatedAll ==
  /\ Len(log) >= 1
  /\ log[1].ep = "validateConcurrency"
  /\ ~ log[1].threw

\* C39 as amended: for a function with a known ceiling,
\* setProvisionedConcurrencyForFunction never issues a put-capacity request whose
\* count exceeds floor(ceiling * margin / 100), whatever was invoked before it;
\* setProvisionedConcurrency issues none either when validateConcurrency was
\* invoked before it and succeeded.
C39_PutWithinMarginOnceValidated ==
  /\ PutsWithin({"setProvisionedConcurrencyForFunction"})
  /\ ValidatedAll => PutsWithin({"setProvisionedConcurrency"})

\* setProvisionedConcurrencyForFunction, invoked with no validation before it,
\* has put a capacity for a function with a ceiling and returned
C39_Witness ==
  /\ Len(log) = 1
  /\ log[1].ep = "setProvisionedConcurrencyForFunction"
  /\ ~ log[1].threw
  /\ \E k \in DOMAIN requests :
       /\ requests[k].op = "putProvisionedConcurrencyConfig"
       /\ requests[k].ok
       /\ requests[k].count >= 1
       /\ ~ IsNullish(Ceiling(requests[k].FunctionName))

(******************* helpers applied on their own **************************)
\* the plugin constructed and no command started
NothingRunning ==
  /\ options = Undefined
  /\ cpuCount = 1
  /\ lambda = [versions |-> <<>>, configs |-> {}, faulty |-> TRUE]
  /\ host = [command |-> "none", step |-> 1, published |-> {}, aborted |-> FALSE]
  /\ call = Idle
  /\ tasks = <<>>
  /\ log = <<>>
  /\ requests = <<>>
  /\ state = NoState

NothingRuns ==
  UNCHANGED <<options, cpuCount, lambda, host, call, tasks, log, requests, state>>

\* maxPercent settings drawn when the validator is applied on its own
Percents == {0, 50, 70, 80, 90, 100}

CustomChoices ==
  {Undefined, Obj([provisionedConcurrency |-> Undefined]), CustomWith(Undefined)}
    \cup {CustomWith(Num(p)) : p \in Percents}

InitValidator ==
  /\ \E provisioned \in {Undefined} \cup {Num(n) : n \in 0..MaxReserved},
        reserved \in {Undefined} \cup {Num(n) : n \in 0..MaxReserved} :
       functions = <<[name |-> hello,
                      config |-> FunctionConfig(provisioned, Undefined, reserved)]>>
  /\ custom \in CustomChoices
  /\ arg = Pending
  /\ ret = Pending
  /\ NothingRunning

\* _validateProvisionedConcurrency applied to a configured function
Validate ==
  /\ ret = Pending
  /\ \E i \in DOMAIN functions :
       /\ arg' = _getConfiguredFunctions[i]
       /\ ret' = _validateProvisionedConcurrency(_getConfiguredFunctions[i])
  /\ UNCHANGED <<functions, custom>>
  /\ NothingRuns

NextValidator == Validate

SpecValidator == InitValidator /\ [][NextValidator]_vars

\* version identifiers a listVersionsByFunction answer is drawn from
VersionPool == {LATEST, <<"1">>, <<"2">>, <<"9">>, <<"1", "0">>}

\* the sequences without repetition of at most n elements of S
RECURSIVE Arrangements(_, _)
Arrangements(S, n) ==
  IF n = 0 THEN {<<>>}
  ELSE LET shorter == Arrangements(S, n - 1)
       IN shorter \cup {Append(q, x) : <<q, x>> \in
                          {<<q, x>> \in shorter \X S : \A i \in DOMAIN q : q[i] # x}}

InitResolver ==
  /\ functions = <<>>
  /\ custom = Undefined
  /\ arg \in {[Versions |-> Undefined]}
              \cup {[Versions |-> Obj([i \in DOMAIN q |-> [Version |-> q[i]]])] :
                      q \in Arrangements(VersionPool, MaxListed)}
  /\ ret = Pending
  /\ NothingRunning

\* _getLatestVersion applied to an answer of listVersionsByFunction
Resolve ==
  /\ ret = Pending
  /\ ret' = LatestOf(arg)
  /\ UNCHANGED <<functions, custom, arg>>
  /\ NothingRuns

NextResolver == Resolve

SpecResolver == InitResolver /\ [][NextResolver]_vars

\* an object without a field
EmptyObject == [k \in {} |-> Undefined]

\* function entries of serverless.yml: without a concurrency block, with an empty
\* one, with `concurrency:` left blank, and with each field absent, empty or set
Entries ==
  {Obj([handler |-> Str(<<"index.handler">>)]),
   Obj([handler |-> Str(<<"index.handler">>), concurrency |-> Obj(EmptyObject)]),
   Obj([handler |-> Str(<<"index.handler">>), concurrency |-> Null])}
    \cup {FunctionConfig(provisioned, version, reserved) :
            provisioned \in {Undefined, Null, Num(0), Num(1), Num(MaxUnits)},
            version \in {Undefined, Str(<<>>), Str(latest), Str(<<"1">>)},
            reserved \in {Undefined, Num(0), Num(MaxUnits)}}

InitConfigured ==
  /\ functions \in {<<>>}
       \cup {<<[name |-> hello, config |-> first]>> : first \in Entries}
       \cup {<<[name |-> hello, config |-> first], [name |-> <<"world">>, config |-> second]>> :
               first \in Entries, second \in Entries}
  /\ custom = Undefined
  /\ arg = Pending
  /\ ret = Pending
  /\ NothingRunning

\* _getConfiguredFunctions applied to the declared functions
GetConfigured ==
  /\ ret = Pending
  /\ ret' = Obj(_getConfiguredFunctions)
  /\ UNCHANGED <<functions, custom, arg>>
  /\ NothingRuns

NextConfigured == GetConfigured

SpecConfigured == InitConfigured /\ [][NextConfigured]_vars

(************************ claims on the validator **************************)
\* the configured maxPercent, or 80 when the setting is absent
ConfiguredMargin ==
  LET maxPercent == Field(Field(custom, "provisionedConcurrency"), "maxPercent")
  IN IF maxPercent.t = "num" THEN maxPercent.v ELSE 80

\* the declared reservedConcurrency of the function validated
DeclaredCeiling == Field(FunctionConfigOf(arg.name), "reservedConcurrency")

\* the desired capacity of the function validated (none counts as 0)
DesiredCapacity == IF arg.config.provisioned.t = "num" THEN arg.config.provisioned.v ELSE 0

\* C7: for every integer ceiling, margin percent and desired capacity, validation
\* of one function fails if and only if a ceiling is known and the desired
\* capacity exceeds floor(ceiling * margin / 100); with no ceiling it passes.
C7_FailsIffAboveFloor ==
  ret # Pending =>
    ((ret # Null) <=>
       (/\ DeclaredCeiling.t = "num"
        /\ DesiredCapacity > (DeclaredCeiling.v * ConfiguredMargin) \div 100))

\* C8: the margin used by validation is custom.provisionedConcurrency.maxPercent
\* when the setting is present and 80 percent otherwise: it is the percentage the
\* error reports and the one the limit is computed from; with ceiling 100 and
\* maxPercent 90, desired 90 passes and desired 91 fails.
C8_MarginIsMaxPercentOr80 ==
  ret # Pending =>
    /\ ret # Null =>
         /\ ret.v.percentDisplay = ConfiguredMargin
         /\ ret.v.maxRecommended = FloorTimes(ret.v.reserved, Hundredths(ConfiguredMargin))
    /\ (ret # Null) <=>
         (/\ DeclaredCeiling.t = "num"
          /\ DesiredCapacity > FloorTimes(DeclaredCeiling.v, Hundredths(ConfiguredMargin)))
    /\ (custom = CustomWith(Num(90)) /\ DeclaredCeiling = Num(100)) =>
         /\ DesiredCapacity = 90 => ret = Null
         /\ DesiredCapacity = 91 => ret # Null
    /\ (custom \in {Undefined, CustomWith(Undefined)} /\ DeclaredCeiling = Num(100)) =>
         /\ DesiredCapacity = 80 => ret = Null
         /\ DesiredCapacity = 81 => ret # Null

C8_Witness ==
  /\ ret # Pending
  /\ ret # Null
  /\ custom = CustomWith(Num(90))
  /\ DeclaredCeiling = Num(100)
  /\ DesiredCapacity = 91
  /\ ret.v.maxRecommended = 90

(************************ claims on the resolver ***************************)
\* the version identifiers of the answer resolved
ListedVersions ==
  IF arg.Versions.t = "obj"
  THEN {arg.Versions.v[i].Version : i \in DOMAIN arg.Versions.v}
  ELSE {}

C10_NoNumberedVersionThrows ==
  (ret # Pending /\ ListedVersions \subseteq {LATEST}) => ret = Throw("NoVersionFoundError")

C10_Witness ==
  /\ arg.Versions = Obj(<<[Version |-> LATEST]>>)
  /\ ret = Throw("NoVersionFoundError")

(*********************** claims on the configuration ***********************)
\* the value a function declares as its provisioned concurrency
DeclaredProvisioned(i) == Field(Field(functions[i].config, "concurrency"), "provisioned")

\* the declared functions that have a provisioned concurrency value, in
\* declaration order
RECURSIVE DeclaringCapacity(_)
DeclaringCapacity(i) ==
  IF i > Len(functions) THEN <<>>
  ELSE (IF IsNullish(DeclaredProvisioned(i)) THEN <<>> ELSE <<functions[i].name>>)
         \o DeclaringCapacity(i + 1)

\* C27: _getConfiguredFunctions returns only the declared functions that have a
\* provisioned concurrency value configured, in declaration order: a function
\* with no concurrency block and a function with an empty concurrency block are
\* both left out of the list.
C27_OnlyFunctionsWithCapacity ==
  ret # Pending =>
    [i \in DOMAIN ret.v |-> ret.v[i].name] = DeclaringCapacity(1)

\* the value of a field once normalised: null when it is missing or empty
Normalised(declared) ==
  IF declared \in {Undefined, Null, Num(0), Str(<<>>)} THEN Null ELSE declared

====
